---- MODULE Spec2Model ----
(***************************************************************************)
(* Verification model of the tkr-llm-client inference gateway.             *)
(*                                                                         *)
(*   Part I    InferenceEngine: the process-wide _mlx_lock, generate,      *)
(*             generate_stream and cancel_generation run by several        *)
(*             threads on one engine (inference/engine.py, batch.py).      *)
(*   Part II   Text of the Harmony wire format.                            *)
(*   Part III  GPTOSSAdapter: the string parser and the stop reason of the *)
(*             non-streaming path (adapters/gpt_oss_adapter.py).           *)
(*   Part IV   HarmonyResponseParser: the token parser                     *)
(*             (prompts/harmony_native.py).                                *)
(*   Part V    POST /v1/messages: route, adapter and engine text           *)
(*             processing of one non-streaming request.                    *)
(*   Part VI   GPTOSSAdapter.generate_stream: the channel filter.          *)
(*   Part VII  ErrorClassifier, RetryStrategy, GracefulDegradation and     *)
(*             ResilientInference (inference/recovery.py).                 *)
(*   Part VIII SamplingParams (sampling/params.py).                        *)
(*   Part IX   POST /v1/chat/completions, streaming (routes/chat.py).      *)
(*   Part X    GPTOSSAdapter: life cycle, message validation and prompt    *)
(*             building (adapters/gpt_oss_adapter.py).                     *)
(*   Part XI   BatchInferenceEngine (inference/batch.py).                  *)
(*   Part XII  MemoryAwareGenerator (inference/optimization.py).           *)
(*   Part XIII StreamController (inference/streaming.py).                  *)
(*   Part XIV  GracefulDegradation: truncate_prompt and                    *)
(*             create_degraded_params (inference/recovery.py).             *)
(*   Part XV   TokenBuffer (inference/streaming.py).                       *)
(***************************************************************************)
EXTENDS Integers, Sequences, FiniteSets, TLC

(***************************************************************************)
(* Bounds of the model.                                                    *)
(***************************************************************************)
\* number of threads calling into the one InferenceEngine
NumThreads == 2
\* messages in a request to the adapter at most
MaxInputMessages == 2
\* prompts in a batch at most
MaxPrompts == 3
\* largest max_tokens of a request to the memory-aware generator
MaxRequestTokens == 40
\* tokens the streaming thread of Part XIII counts at most
MaxCtlTokens == 6
\* calls each thread makes at most
MaxCalls == 1
\* sampling_params.max_tokens of every stream of Part I: the engine emits at
\* most this many tokens per stream
MaxStreamTokens == 1
\* longest token list handed to parse_response_tokens
MaxTokenIds == 4
\* longest raw output, in pieces, handed to _parse_harmony_response and longest
\* stream handed to GPTOSSAdapter.generate_stream
MaxRawLen == 5
\* largest request.max_tokens of a /v1/messages request
MaxTokens == 5
\* most messages in a well-formed model output
MaxMessages == 2
\* RetryConfig.max_retries (default 3)
MaxRetries == 3
\* largest max_tokens a caller of SamplingParams passes, 512 (the default) aside
MaxParamTokens == 2
\* longest prompt, in characters, handed to truncate_prompt
MaxPromptLen == 6
\* largest max_length handed to truncate_prompt
MaxLength == 5
\* largest max_tokens and min_tokens of the parameters handed to
\* create_degraded_params
MaxDegradeTokens == 5
\* largest buffer_size of a TokenBuffer
MaxBufferSize == 2
\* most tokens added to a TokenBuffer
MaxBufferTokens == 3

Threads == 1..NumThreads
NoThread == 0

VARIABLES
    \* ---- Part I: engine.py ----
    mlx_lock,       \* holder of _mlx_lock, NoThread when free
    pc,             \* pc[t]: position of thread t inside generate / generate_stream
    op,             \* op[t]: "none" | "generate" | "stream", the call t runs or ran last
    calls,          \* calls[t]: calls t has started
    cancelled,      \* InferenceEngine._cancelled
    token_count,    \* token_count[t]: local of generate_stream
    emitted,        \* emitted[t]: tokens mlx_lm.stream_generate has produced for t's stream
    finish,         \* finish[t]: finish reason handed to MetricsTracker.end_generation
    \* history variables of Part I
    cancelPending,  \* cancel_generation() was called while t's stream was active
    tokAfterCancel, \* the token t holds was emitted by the engine after that call
    metrics_tracker,\* InferenceEngine.metrics_tracker: _start_time and _first_token_time
    recorded,       \* recorded[t]: the _start_time the metric of t's last call was computed from
    clears,         \* mx.clear_cache() calls made by t's current or last call
    \* ---- Part IV: a call of parse_response_tokens ----
    call_token_ids, \* the argument token_ids
    parsed,         \* what the call returned or raised, NotCalled before the call
    \* ---- Part III: a call of _parse_harmony_response ----
    call_raw_output,    \* the argument raw_output
    harmony,        \* the pair the call returned, NotCalled before the call
    \* ---- Part V: a request to POST /v1/messages ----
    max_tokens,     \* request.max_tokens
    generated_text, \* the text mlx_lm.generate has produced so far
    response,       \* the AnthropicResponse, NotCalled until the handler has returned
    \* ---- Part VI: a call of GPTOSSAdapter.generate_stream ----
    stream_tokens,  \* chunk["token"] of the chunks the engine has yielded so far
    buffer,         \* local buffer
    current_channel,    \* local current_channel
    in_final_channel,   \* local in_final_channel
    yielded,        \* yielded[i]: a GenerationChunk was yielded for stream_tokens[i]
    \* ---- Part VII: RetryStrategy.execute / generate_with_recovery ----
    rcaller,        \* "direct": execute called on a function, "recovery": by generate_with_recovery
    rpc,            \* position inside execute and generate_with_recovery
    attempt,        \* local attempt of execute
    last_error,     \* the error the last call of the function raised
    sleeps,         \* time.sleep calls made
    call_log,       \* the calls of the function so far: max_tokens used, degradations
                    \* made before the call, and outcome
    current_params, \* max_tokens of current_params of generate_with_recovery
    degradations,   \* times generate_with_recovery has degraded the parameters
    \* ---- Part VIII: SamplingParams ----
    params_obj,     \* the SamplingParams a constructor or from_dict call produced, or
                    \* the ValueError it raised; NotCalled before the call
    copy_obj,       \* the same for the last copy(**overrides) call on params_obj
    \* ---- Part IX: a streaming request to POST /v1/chat/completions ----
    stream_parser,  \* the StreamableParser of InferenceEngine.generate_stream
    sse,            \* the server-sent events stream_chat_completion has yielded
    \* ---- Part X: one GPTOSSAdapter ----
    loaded,         \* self._loaded
    engine_set,     \* self._engine is not None
    adapter_call,   \* the last call of generate or generate_stream and how it went
    \* ---- Part XI: a call of BatchInferenceEngine.generate_batch ----
    batch_pc,       \* "idle", "sequential", "parallel", or "returned"
    prompts,        \* len(prompts)
    futures,        \* per prompt: its generate call is "pending", has returned
                    \* ("ok") or has raised ("raise")
    collected,      \* the indices the collecting loop has handled, in its order
    results,        \* local results
    successful_count,   \* local successful_count
    failed_count,   \* local failed_count
    \* ---- Part XII: a call of MemoryAwareGenerator.adjust_max_tokens ----
    adjusted,       \* the arguments and the max_tokens of the SamplingParams returned
    \* ---- Part XIII: one StreamController, a control thread, a streaming thread ----
    ctl_state,      \* self._state
    ctl_lock,       \* the holder of self._lock, "free" when nobody holds it
    pause_event,    \* self._pause_event is set
    total_tokens,   \* self._total_tokens
    cpc,            \* the control thread: "idle" between calls, inside cancel()
                    \* "cancel" or "cancel_blocked"
    wpc,            \* the streaming thread: "wait" at wait_if_paused(), "token" behind it
    ctl_call,       \* the last start/pause/resume/complete/error/reset call: the
                    \* method, the fields before it and the fields behind it
    \* ---- Part XIV: recovery.py, GracefulDegradation ----
    truncated,      \* the truncate_prompt call made: arguments and result
    degraded,       \* the create_degraded_params call made: arguments and outcome
    \* ---- Part XV: streaming.py, TokenBuffer ----
    token_buffer    \* the TokenBuffer: auto_flush, buffer_size, _full_text,
                    \* _pending_tokens, and what its callback has received

engVars == <<mlx_lock, pc, op, calls, cancelled, token_count, emitted, finish,
            metrics_tracker, recorded,
             cancelPending, tokAfterCancel, clears>>

tokVars == <<call_token_ids, parsed>>
strVars == <<call_raw_output, harmony>>
msgVars == <<max_tokens, generated_text, response>>
streamVars == <<stream_tokens, buffer, current_channel, in_final_channel, yielded>>
textVars == <<tokVars, strVars, msgVars, streamVars>>
retryVars == <<rcaller, rpc, attempt, last_error, sleeps, call_log, current_params,
               degradations>>
paramVars == <<params_obj, copy_obj>>
sseVars == <<stream_parser, sse>>
adapterVars == <<loaded, engine_set, adapter_call>>
batchVars == <<batch_pc, prompts, futures, collected, results, successful_count,
               failed_count>>
ctlVars == <<ctl_state, ctl_lock, pause_event, total_tokens, cpc, wpc, ctl_call>>
\* the variables of the parts behind Part VIII, and of those behind Part VI
degrVars == <<truncated, degraded>>

moreVars == <<sseVars, adapterVars, batchVars, adjusted, ctlVars, degrVars, token_buffer>>
laterVars == <<retryVars, paramVars, moreVars>>

vars == <<engVars, textVars, laterVars>>

\* the variables of Parts I to VIII, and what each later part leaves alone
coreVars == <<engVars, textVars, retryVars, paramVars>>
exceptChat == <<engVars, tokVars, strVars, msgVars, retryVars, paramVars, adapterVars,
                batchVars, adjusted, ctlVars, degrVars, token_buffer>>
exceptAdapter == <<coreVars, sseVars, batchVars, adjusted, ctlVars, degrVars, token_buffer>>
exceptBatch == <<coreVars, sseVars, adapterVars, adjusted, ctlVars, degrVars, token_buffer>>
exceptAdjust == <<coreVars, sseVars, adapterVars, batchVars, ctlVars, degrVars, token_buffer>>
exceptCtl == <<coreVars, sseVars, adapterVars, batchVars, adjusted, degrVars, token_buffer>>
exceptDegr == <<coreVars, sseVars, adapterVars, batchVars, adjusted, ctlVars, token_buffer>>
exceptBuf == <<coreVars, sseVars, adapterVars, batchVars, adjusted, ctlVars, degrVars>>

(***************************************************************************)
(* Part I.  InferenceEngine                                                *)
(***************************************************************************)
GeneratePcs == {"g_lock", "g_engine", "g_exit_ok", "g_exit_exc", "g_clear", "g_parse",
                "g_except"}
StreamPcs == {"s_next", "s_check", "s_yield", "s_finish", "s_clear", "s_except"}
\* the positions inside the `with _mlx_lock:` block of generate
InsideWith == {"g_engine", "g_exit_ok", "g_exit_exc"}
\* a stream's lifetime: from its first call into mlx_lm.stream_generate until it ends
StreamActive == StreamPcs

EngInit ==
    /\ mlx_lock = NoThread
    /\ pc = [t \in Threads |-> "idle"]
    /\ op = [t \in Threads |-> "none"]
    /\ calls = [t \in Threads |-> 0]
    /\ cancelled = FALSE
    /\ token_count = [t \in Threads |-> 0]
    /\ emitted = [t \in Threads |-> 0]
    /\ finish = [t \in Threads |-> "none"]
    /\ cancelPending = [t \in Threads |-> FALSE]
    /\ tokAfterCancel = [t \in Threads |-> FALSE]
    /\ clears = [t \in Threads |-> 0]
    /\ metrics_tracker = [start |-> NoThread, first |-> FALSE]
    /\ recorded = [t \in Threads |-> "none"]

\* threading.Lock.acquire: `with _mlx_lock:` enters only when nobody holds the lock
CanAcquireNoCheck(t) == TRUE
CanAcquire(t) == mlx_lock = NoThread

\* the value of _mlx_lock when the `with` block is left, normally (exc = FALSE)
\* or by an exception of mlx_lm.generate (exc = TRUE): __exit__ releases in both
WithExitKeepsOnRaise(holder, exc) == IF exc THEN holder ELSE NoThread
WithExit(holder, exc) == NoThread

\* the history variables of a call that starts or ends
ResetHistory(t) ==
    /\ cancelPending' = [cancelPending EXCEPT ![t] = FALSE]
    /\ tokAfterCancel' = [tokAfterCancel EXCEPT ![t] = FALSE]

\* the locals token_count and the engine's iterator position of a stream that
\* starts or ends
ResetLocals(t) ==
    /\ token_count' = [token_count EXCEPT ![t] = 0]
    /\ emitted' = [emitted EXCEPT ![t] = 0]

histVars == <<cancelPending, tokAfterCancel, clears>>
metricVars == <<metrics_tracker, recorded>>

\* ---- MetricsTracker ----
\* _start_time is named by the thread whose start_generation wrote it, NoThread
\* when it is None; first says whether _first_token_time is set
StartGeneration(t) == [start |-> t, first |-> FALSE]

MarkFirstToken(tracker) ==
    IF tracker.start # NoThread /\ ~tracker.first
      THEN [tracker EXCEPT !.first = TRUE]
      ELSE tracker

\* end_generation called by thread t: the latency of the appended metric is
\* measured from _start_time, which is t's own start, the start of another
\* thread's call, or (when None) the time of this very call; then both
\* times are set to None
EndGeneration(t) ==
    /\ recorded' = [recorded EXCEPT ![t] =
                      IF metrics_tracker.start = t THEN "own"
                      ELSE IF metrics_tracker.start = NoThread THEN "missing"
                      ELSE "other"]
    /\ metrics_tracker' = [start |-> NoThread, first |-> FALSE]
localVars == <<token_count, emitted>>

\* ---- InferenceEngine.generate ----

\* generate up to the `with _mlx_lock:` statement: start_generation, prompt building
Generate_Begin(t) ==
    /\ pc[t] = "idle"
    /\ calls[t] < MaxCalls
    /\ pc' = [pc EXCEPT ![t] = "g_lock"]
    /\ op' = [op EXCEPT ![t] = "generate"]
    /\ calls' = [calls EXCEPT ![t] = @ + 1]
    /\ finish' = [finish EXCEPT ![t] = "none"]
    /\ clears' = [clears EXCEPT ![t] = 0]
    /\ metrics_tracker' = StartGeneration(t)
    /\ UNCHANGED <<recorded, mlx_lock, cancelled, localVars, cancelPending, tokAfterCancel,
                   textVars, laterVars>>

\* `with _mlx_lock:` entered, mlx_lm.generate called
Generate_Acquire(t) ==
    /\ pc[t] = "g_lock"
    /\ CanAcquire(t)
    /\ mlx_lock' = t
    /\ pc' = [pc EXCEPT ![t] = "g_engine"]
    /\ UNCHANGED <<op, calls, cancelled, finish, localVars, histVars, metricVars, textVars, laterVars>>

\* mlx_lm.generate returns the generated text
Generate_EngineReturn(t) ==
    /\ pc[t] = "g_engine"
    /\ pc' = [pc EXCEPT ![t] = "g_exit_ok"]
    /\ UNCHANGED <<mlx_lock, op, calls, cancelled, finish, localVars, histVars, metricVars, textVars, laterVars>>

\* mlx_lm.generate raises
Generate_EngineRaise(t) ==
    /\ pc[t] = "g_engine"
    /\ pc' = [pc EXCEPT ![t] = "g_exit_exc"]
    /\ UNCHANGED <<mlx_lock, op, calls, cancelled, finish, localVars, histVars, metricVars, textVars, laterVars>>

\* the `with` block is left: to the metrics and the cache clear, or to the handler
Generate_Release(t) ==
    /\ pc[t] \in {"g_exit_ok", "g_exit_exc"}
    /\ mlx_lock' = WithExit(mlx_lock, pc[t] = "g_exit_exc")
    /\ pc' = [pc EXCEPT ![t] = IF pc[t] = "g_exit_ok" THEN "g_clear" ELSE "g_except"]
    /\ UNCHANGED <<op, calls, cancelled, finish, localVars, histVars, metricVars, textVars, laterVars>>

\* finish_reason ("length" when the word count of the text reaches max_tokens,
\* "stop" otherwise), end_generation, then mx.clear_cache(); an exception of
\* the cache clear is logged and the call goes on the same way
Generate_ClearCache(t) ==
    /\ pc[t] = "g_clear"
    /\ \E fr \in {"stop", "length"} : finish' = [finish EXCEPT ![t] = fr]
    /\ clears' = [clears EXCEPT ![t] = @ + 1]
    /\ pc' = [pc EXCEPT ![t] = "g_parse"]
    /\ EndGeneration(t)
    /\ UNCHANGED <<mlx_lock, op, calls, cancelled, localVars, cancelPending,
                   tokAfterCancel, textVars, laterVars>>

\* the response is parsed and the GenerationResult returned
Generate_Return(t) ==
    /\ pc[t] = "g_parse"
    /\ pc' = [pc EXCEPT ![t] = "idle"]
    /\ UNCHANGED <<mlx_lock, op, calls, cancelled, finish, localVars, histVars, metricVars, textVars, laterVars>>

\* except Exception: end_generation(finish_reason="error"), raise GenerationError
Generate_Fail(t) ==
    /\ pc[t] = "g_except"
    /\ finish' = [finish EXCEPT ![t] = "error"]
    /\ pc' = [pc EXCEPT ![t] = "idle"]
    /\ EndGeneration(t)
    /\ UNCHANGED <<mlx_lock, op, calls, cancelled, localVars, histVars, textVars, laterVars>>

GenerateStep(t) ==
    \/ Generate_Acquire(t)
    \/ Generate_EngineReturn(t)
    \/ Generate_EngineRaise(t)
    \/ Generate_Release(t)
    \/ Generate_ClearCache(t)
    \/ Generate_Return(t)
    \/ Generate_Fail(t)

\* ---- InferenceEngine.generate_stream ----

\* the generator body up to the first call into mlx_lm.stream_generate:
\* start_generation, self._cancelled = False, prompt and parser set up
Stream_Begin(t) ==
    /\ pc[t] = "idle"
    /\ calls[t] < MaxCalls
    /\ pc' = [pc EXCEPT ![t] = "s_next"]
    /\ op' = [op EXCEPT ![t] = "stream"]
    /\ calls' = [calls EXCEPT ![t] = @ + 1]
    /\ cancelled' = FALSE
    /\ finish' = [finish EXCEPT ![t] = "none"]
    /\ clears' = [clears EXCEPT ![t] = 0]
    /\ metrics_tracker' = StartGeneration(t)
    /\ UNCHANGED <<recorded, mlx_lock, localVars, cancelPending, tokAfterCancel, textVars,
                   laterVars>>

\* mlx_lm.stream_generate produces the next token
Stream_EngineToken(t) ==
    /\ pc[t] = "s_next"
    /\ emitted[t] < MaxStreamTokens
    /\ emitted' = [emitted EXCEPT ![t] = @ + 1]
    /\ pc' = [pc EXCEPT ![t] = "s_check"]
    /\ tokAfterCancel' = [tokAfterCancel EXCEPT ![t] = cancelPending[t]]
    /\ UNCHANGED <<mlx_lock, op, calls, cancelled, token_count, finish, cancelPending,
                   clears, metricVars, textVars, laterVars>>

\* mlx_lm.stream_generate is exhausted: the for loop ends
Stream_EngineExhausted(t) ==
    /\ pc[t] = "s_next"
    /\ pc' = [pc EXCEPT ![t] = "s_finish"]
    /\ UNCHANGED <<mlx_lock, op, calls, cancelled, finish, localVars, histVars, metricVars, textVars, laterVars>>

\* mlx_lm.stream_generate raises
Stream_EngineRaise(t) ==
    /\ pc[t] = "s_next"
    /\ pc' = [pc EXCEPT ![t] = "s_except"]
    /\ UNCHANGED <<mlx_lock, op, calls, cancelled, finish, localVars, histVars, metricVars, textVars, laterVars>>

\* the loop body: `if self._cancelled:` end_generation("cancelled") and raise
\* GenerationCancelledError; otherwise the token is yielded with its channel
Stream_CheckCancel(t) ==
    /\ pc[t] = "s_check"
    /\ IF cancelled
         THEN /\ finish' = [finish EXCEPT ![t] = "cancelled"]
              /\ pc' = [pc EXCEPT ![t] = "idle"]
              /\ ResetLocals(t)
              /\ ResetHistory(t)
              /\ UNCHANGED clears
              /\ EndGeneration(t)
         ELSE /\ pc' = [pc EXCEPT ![t] = "s_yield"]
              /\ metrics_tracker' = IF token_count[t] = 0
                                      THEN MarkFirstToken(metrics_tracker)
                                      ELSE metrics_tracker
              /\ UNCHANGED <<finish, localVars, histVars, recorded>>
    /\ UNCHANGED <<mlx_lock, op, calls, cancelled, textVars, laterVars>>

\* the consumer asks for the next chunk: token_count += 1, back to the engine
Stream_Resume(t) ==
    /\ pc[t] = "s_yield"
    /\ token_count' = [token_count EXCEPT ![t] = @ + 1]
    /\ tokAfterCancel' = [tokAfterCancel EXCEPT ![t] = FALSE]
    /\ pc' = [pc EXCEPT ![t] = "s_next"]
    /\ UNCHANGED <<mlx_lock, op, calls, cancelled, emitted, finish, cancelPending,
                   clears, metricVars, textVars, laterVars>>

\* after the loop: process_eos, finish_reason, end_generation
Stream_Finish(t) ==
    /\ pc[t] = "s_finish"
    /\ finish' = [finish EXCEPT ![t] =
                    IF token_count[t] >= MaxStreamTokens THEN "length" ELSE "stop"]
    /\ pc' = [pc EXCEPT ![t] = "s_clear"]
    /\ EndGeneration(t)
    /\ UNCHANGED <<mlx_lock, op, calls, cancelled, localVars, histVars, textVars, laterVars>>

\* mx.clear_cache() (best effort), the generator returns
Stream_ClearCache(t) ==
    /\ pc[t] = "s_clear"
    /\ pc' = [pc EXCEPT ![t] = "idle"]
    /\ clears' = [clears EXCEPT ![t] = @ + 1]
    /\ ResetLocals(t)
    /\ ResetHistory(t)
    /\ UNCHANGED <<mlx_lock, op, calls, cancelled, finish, metricVars, textVars, laterVars>>

\* except Exception: end_generation(finish_reason="error"), raise GenerationError
Stream_Fail(t) ==
    /\ pc[t] = "s_except"
    /\ finish' = [finish EXCEPT ![t] = "error"]
    /\ pc' = [pc EXCEPT ![t] = "idle"]
    /\ ResetLocals(t)
    /\ ResetHistory(t)
    /\ UNCHANGED clears
    /\ EndGeneration(t)
    /\ UNCHANGED <<mlx_lock, op, calls, cancelled, textVars, laterVars>>

StreamStep(t) ==
    \/ Stream_EngineToken(t)
    \/ Stream_EngineExhausted(t)
    \/ Stream_EngineRaise(t)
    \/ Stream_CheckCancel(t)
    \/ Stream_Resume(t)
    \/ Stream_Finish(t)
    \/ Stream_ClearCache(t)
    \/ Stream_Fail(t)

\* ---- InferenceEngine.cancel_generation ----
CancelGeneration ==
    /\ cancelled' = TRUE
    /\ cancelPending' = [t \in Threads |-> cancelPending[t] \/ pc[t] \in StreamActive]
    /\ UNCHANGED <<mlx_lock, pc, op, calls, finish, localVars, tokAfterCancel, clears,
                   metricVars, textVars, laterVars>>

EngNext ==
    \/ \E t \in Threads : Generate_Begin(t)
    \/ \E t \in Threads : GenerateStep(t)
    \/ \E t \in Threads : Stream_Begin(t)
    \/ \E t \in Threads : StreamStep(t)
    \/ CancelGeneration

(***************************************************************************)
(* Part II.  Text of the Harmony wire format                               *)
(*                                                                         *)
(* A text is a sequence of pieces; a piece is one vocabulary entry: a      *)
(* special token <|...|>, a role or channel name, a word or a blank.       *)
(* Texts are token-aligned: no piece other than a special token contains   *)
(* "<|".                                                                   *)
(***************************************************************************)
SpecialTokens == {"<|start|>", "<|end|>", "<|message|>", "<|channel|>", "<|return|>",
                  "<|call|>"}
RoleNames == {"assistant"}
ChannelNames == {"final", "analysis", "commentary"}
Blank == " "
Words == {"x"}

\* token.startswith("<|"), and what re.sub(r'<\|[^|]+\|>', ...) matches
IsSpecial(p) == p \in SpecialTokens

\* sub in text
Contains(text, p) == \E i \in 1..Len(text) : text[i] = p

\* the first position >= from of a piece of `set` in text, 0 when there is none
RECURSIVE FirstIn(_, _, _)
FirstIn(text, set, from) ==
    IF from > Len(text) THEN 0
    ELSE IF text[from] \in set THEN from
    ELSE FirstIn(text, set, from + 1)

\* str.strip(): leading and trailing blanks removed
RECURSIVE LStrip(_)
LStrip(text) ==
    IF text # <<>> /\ Head(text) = Blank THEN LStrip(Tail(text)) ELSE text

RECURSIVE RStrip(_)
RStrip(text) ==
    IF text # <<>> /\ text[Len(text)] = Blank
      THEN RStrip(SubSeq(text, 1, Len(text) - 1))
      ELSE text

Strip(text) == RStrip(LStrip(text))

\* "".join(parts)
RECURSIVE Join(_)
Join(parts) == IF parts = <<>> THEN <<>> ELSE Head(parts) \o Join(Tail(parts))

\* len(text.split()): the number of maximal runs of non-blank pieces
RECURSIVE WordCount(_)
WordCount(text) ==
    IF text = <<>> THEN 0
    ELSE IF Head(text) = Blank THEN WordCount(Tail(text))
    ELSE IF Len(text) = 1 \/ text[2] = Blank THEN 1 + WordCount(Tail(text))
    ELSE WordCount(Tail(text))

\* Optional[str]
NoneVal == [some |-> FALSE, val |-> <<>>]
Some(v) == [some |-> TRUE, val |-> v]

\* a call that has not been made yet
NotCalled == [called |-> FALSE]

(***************************************************************************)
(* Part III.  GPTOSSAdapter: the string parser of the non-streaming path   *)
(***************************************************************************)

\* re.findall of
\*   (?:<\|start\|>assistant)?<\|channel\|>(.*?)<\|message\|>(.*?)(?:<\|end\|>|<\|return\|>)
\* with re.DOTALL, scanning from position i: at a <|channel|> the lazy groups
\* stop at the first <|message|> after it and at the first <|end|> or
\* <|return|> after that; the scan goes on behind the match. The optional
\* prefix captures nothing.
RECURSIVE FindAllMessages(_, _)
FindAllMessages(text, i) ==
    IF i > Len(text) THEN <<>>
    ELSE IF text[i] # "<|channel|>" THEN FindAllMessages(text, i + 1)
    ELSE LET j == FirstIn(text, {"<|message|>"}, i + 1)
             k == IF j = 0 THEN 0 ELSE FirstIn(text, {"<|end|>", "<|return|>"}, j + 1)
         IN  IF k = 0
               THEN FindAllMessages(text, i + 1)
               ELSE <<[channel |-> SubSeq(text, i + 1, j - 1),
                       content |-> SubSeq(text, j + 1, k - 1)]>>
                    \o FindAllMessages(text, k + 1)

\* the contents of the matches whose channel.strip() is `name`
RECURSIVE ContentOf(_, _)
ContentOf(matches, name) ==
    IF matches = <<>> THEN <<>>
    ELSE IF Strip(Head(matches).channel) = <<name>>
           THEN <<Head(matches).content>> \o ContentOf(Tail(matches), name)
           ELSE ContentOf(Tail(matches), name)

\* re.sub(r'<\|[^|]+\|>', '', raw_output).strip()
FallbackText(raw_output) ==
    Strip(SelectSeq(raw_output, LAMBDA p : ~IsSpecial(p)))

\* GPTOSSAdapter._parse_harmony_response: (final_text, analysis_text)
ParseHarmonyResponse(raw_output) ==
    LET matches == FindAllMessages(raw_output, 1)
        final_content == ContentOf(matches, "final")
        analysis_content == ContentOf(matches, "analysis")
    IN  [final_text |-> IF final_content # <<>>
                          THEN Strip(Join(final_content))
                          ELSE FallbackText(raw_output),
         analysis_text |-> IF analysis_content # <<>>
                             THEN Strip(Join(analysis_content))
                             ELSE <<>>]

\* GPTOSSAdapter._detect_harmony_stop_reason
DetectHarmonyStopReason(raw_output) ==
    IF Contains(raw_output, "<|return|>") THEN "stop"
    ELSE IF Contains(raw_output, "<|call|>") THEN "tool_use"
    ELSE "length"

\* GPTOSSAdapter.generate, lines 295-299: the engine's finish reason replaces
\* the detected one only when it is "eos"
AdapterFinishReason(harmony_stop_reason, engine_finish_reason) ==
    IF harmony_stop_reason = "length" /\ engine_finish_reason = "eos"
      THEN "stop"
      ELSE harmony_stop_reason

(***************************************************************************)
(* Part IV.  HarmonyResponseParser: the token parser                       *)
(***************************************************************************)

\* the vocabulary: tokenizer.encode maps a piece to its index, decode maps back
Vocabulary == <<"<|start|>", "<|end|>", "<|message|>", "<|channel|>", "<|return|>",
                "<|call|>", "assistant", "final", "analysis", "commentary", "x", " ">>
TokenId(p) == CHOOSE id \in 1..Len(Vocabulary) : Vocabulary[id] = p
Encode(text) == [i \in 1..Len(text) |-> TokenId(text[i])]
DecodeToken(id) == Vocabulary[id]

\* openai_harmony.StreamableParser(encoding, Role.ASSISTANT): the parser starts
\* inside an assistant turn, expecting the header
ParserStart == [st |-> "AWAIT_HEADER", channel |-> <<>>, content |-> <<>>,
                messages |-> <<>>]

CloseMessage(ps, st) ==
    [st |-> st, channel |-> <<>>, content |-> <<>>,
     messages |-> Append(ps.messages, [channel |-> ps.channel, content |-> ps.content])]

\* StreamableParser.process(token_id): the state machine of the Harmony parser.
\* A token that has no transition in the current state is not consumed (the
\* library raises on it, parse_response_tokens logs and goes on).
ParserProcess(ps, token_id) ==
    LET tok == DecodeToken(token_id) IN
    CASE ps.st = "OUTSIDE" ->
           IF tok = "<|start|>" THEN [ps EXCEPT !.st = "AWAIT_ROLE"] ELSE ps
      [] ps.st = "AWAIT_ROLE" ->
           IF tok \in RoleNames THEN [ps EXCEPT !.st = "AWAIT_HEADER"] ELSE ps
      [] ps.st = "AWAIT_HEADER" ->
           IF tok = "<|channel|>" THEN [ps EXCEPT !.st = "READ_CHANNEL", !.channel = <<>>]
           ELSE IF tok = "<|message|>" THEN [ps EXCEPT !.st = "IN_MESSAGE"]
           ELSE ps
      [] ps.st = "READ_CHANNEL" ->
           IF tok = "<|message|>" THEN [ps EXCEPT !.st = "IN_MESSAGE"]
           ELSE IF IsSpecial(tok) THEN ps
           ELSE [ps EXCEPT !.channel = Append(@, tok)]
      [] ps.st = "IN_MESSAGE" ->
           IF tok \in {"<|end|>", "<|return|>", "<|call|>"} THEN CloseMessage(ps, "OUTSIDE")
           ELSE IF tok = "<|start|>" THEN CloseMessage(ps, "AWAIT_ROLE")
           ELSE IF IsSpecial(tok) THEN ps
           ELSE [ps EXCEPT !.content = Append(@, tok)]

\* StreamableParser.process_eos(): an open message is closed implicitly
ParserProcessEos(ps) ==
    IF ps.st = "IN_MESSAGE" THEN CloseMessage(ps, "OUTSIDE") ELSE ps

\* the loop `for token_id in token_ids: parser = parser.process(token_id)`
RECURSIVE ParserRun(_, _)
ParserRun(ps, token_ids) ==
    IF token_ids = <<>> THEN ps
    ELSE ParserRun(ParserProcess(ps, Head(token_ids)), Tail(token_ids))

\* the loop over parser.messages of parse_response_tokens, lines 600-623:
\* acc is (final, analysis, commentary, channels_dict)
RECURSIVE ExtractChannels(_, _, _)
ExtractChannels(messages, extract_final_only, acc) ==
    IF messages = <<>> THEN acc
    ELSE LET m == Head(messages)
             withDict == [acc EXCEPT !.channels =
                            [c \in DOMAIN acc.channels \cup {m.channel} |->
                               IF c = m.channel THEN m.content ELSE acc.channels[c]]]
         IN  IF m.channel = <<>>
               THEN ExtractChannels(Tail(messages), extract_final_only, acc)
             ELSE IF m.channel = <<"final">>
               THEN IF extract_final_only
                      THEN [withDict EXCEPT !.final = m.content]
                      ELSE ExtractChannels(Tail(messages), extract_final_only,
                                           [withDict EXCEPT !.final = m.content])
             ELSE IF extract_final_only
               THEN ExtractChannels(Tail(messages), extract_final_only, withDict)
             ELSE IF m.channel = <<"analysis">>
               THEN ExtractChannels(Tail(messages), extract_final_only,
                                    [withDict EXCEPT !.analysis = Some(m.content)])
             ELSE IF m.channel = <<"commentary">>
               THEN ExtractChannels(Tail(messages), extract_final_only,
                                    [withDict EXCEPT !.commentary = Some(m.content)])
             ELSE ExtractChannels(Tail(messages), extract_final_only, withDict)

\* what the code inside the try block of parse_response_tokens can raise: the
\* library's own errors and other exceptions. HarmonyFormatError, the class
\* this module defines and re-raises, is raised by nothing inside the block.
ParserFaults == {"none", "Exception"}

\* a ParsedHarmonyResponse, or the exception that left the method
Parsed(final, analysis, commentary, channels, error, message_count) ==
    [raised |-> "none", final |-> final, analysis |-> analysis, commentary |-> commentary,
     channels |-> channels, error |-> error, message_count |-> message_count]
Raised(exc) ==
    [raised |-> exc, final |-> NoneVal, analysis |-> NoneVal, commentary |-> NoneVal,
     channels |-> <<>>, error |-> FALSE, message_count |-> 0]

\* the handlers of the try block, lines 651-664: a HarmonyFormatError is
\* re-raised, any other exception gives final = "" and metadata["error"]
OnParserFaultReraise(fault) == Raised(fault)
OnParserFault(fault) ==
    IF fault = "HarmonyFormatError"
      THEN Raised(fault)
      ELSE Parsed(Some(<<>>), NoneVal, NoneVal, <<>>, TRUE, 0)

\* HarmonyResponseParser.parse_response_tokens; fault is the exception raised
\* by process_eos or the extraction ("none": no exception)
ParseResponseTokens(token_ids, extract_final_only, fault) ==
    IF token_ids = <<>> THEN Raised("ValueError")
    ELSE IF fault # "none" THEN OnParserFault(fault)
    ELSE LET parser == ParserProcessEos(ParserRun(ParserStart, token_ids))
             acc == ExtractChannels(parser.messages, extract_final_only,
                        [final |-> <<>>, analysis |-> NoneVal, commentary |-> NoneVal,
                         channels |-> <<>>])
         IN  Parsed(Some(acc.final), acc.analysis, acc.commentary, acc.channels, FALSE,
                    Len(parser.messages))

\* HarmonyResponseParser.parse_response_text: empty text and a failing
\* tokenizer raise ValueError, otherwise the tokens are parsed
ParseResponseText(response_text, tokenizer_ok, extract_final_only, fault) ==
    IF response_text = <<>> THEN Raised("ValueError")
    ELSE IF ~tokenizer_ok THEN Raised("ValueError")
    ELSE ParseResponseTokens(Encode(response_text), extract_final_only, fault)

\* ---- one call of parse_response_tokens on any token list ----
TokenLists == UNION {[1..n -> 1..Len(Vocabulary)] : n \in 0..MaxTokenIds}

TokIdle ==
    /\ call_token_ids = <<>>
    /\ parsed = NotCalled

TokInit ==
    /\ call_token_ids \in TokenLists
    /\ parsed = NotCalled

ParseTokens ==
    /\ parsed = NotCalled
    /\ \E extract_final_only \in BOOLEAN, fault \in ParserFaults :
          parsed' = [called |-> TRUE, extract_final_only |-> extract_final_only,
                     fault |-> fault,
                     result |-> ParseResponseTokens(call_token_ids, extract_final_only, fault)]
    /\ UNCHANGED <<call_token_ids, engVars, strVars, msgVars, streamVars,
                   laterVars>>

(***************************************************************************)
(* The reading of an output by the Harmony format: which pieces are the    *)
(* content of a message of which channel.                                  *)
(***************************************************************************)
\* the parser state in which piece i of text is read
StateBefore(text, i) == ParserRun(ParserStart, Encode(SubSeq(text, 1, i - 1)))

\* piece i of text is a content token of a message of channel `name`
IsContentOf(text, i, name) ==
    LET ps == StateBefore(text, i)
    IN  /\ ps.st = "IN_MESSAGE"
        /\ Strip(ps.channel) = <<name>>
        /\ ~IsSpecial(text[i])

\* text without the content of its analysis messages
RECURSIVE EraseFrom(_, _)
EraseFrom(text, i) ==
    IF i > Len(text) THEN <<>>
    ELSE (IF IsContentOf(text, i, "analysis") THEN <<>> ELSE <<text[i]>>)
         \o EraseFrom(text, i + 1)
EraseAnalysis(text) == EraseFrom(text, 1)

\* ---- one call of _parse_harmony_response on any raw output ----
OutputPieces == {Vocabulary[id] : id \in 1..Len(Vocabulary)} \ {"commentary"}
RawOutputs == UNION {[1..n -> OutputPieces] : n \in 0..MaxRawLen}

StrIdle ==
    /\ call_raw_output = <<>>
    /\ harmony = NotCalled

StrInit ==
    /\ call_raw_output \in RawOutputs
    /\ harmony = NotCalled

ParseHarmony ==
    /\ harmony = NotCalled
    /\ LET r == ParseHarmonyResponse(call_raw_output)
       IN  harmony' = [called |-> TRUE, final_text |-> r.final_text,
                       analysis_text |-> r.analysis_text]
    /\ UNCHANGED <<call_raw_output, engVars, tokVars, msgVars, streamVars,
                   laterVars>>

(***************************************************************************)
(* Part V.  POST /v1/messages: create_message, GPTOSSAdapter.generate and  *)
(* the text processing of InferenceEngine.generate                         *)
(***************************************************************************)

\* InferenceEngine.generate behind the mlx_lm.generate call: the word count as
\* tokens_generated, the finish reason, and the final channel of the output
\* as text; the raw output is the text when parse_response_text raises.
\* The adapter's ModelConfig: use_harmony_format absent (True),
\* capture_reasoning False, so extract_final_only is True.
EngineGenerate(text, maxTokens, tokenizer_ok, fault) ==
    LET tokens_generated == WordCount(text)
        p == ParseResponseText(text, tokenizer_ok, TRUE, fault)
    IN  [text |-> IF p.raised # "none" THEN text ELSE p.final.val,
         tokens_generated |-> tokens_generated,
         finish_reason |-> IF tokens_generated >= maxTokens THEN "length" ELSE "stop"]

\* GPTOSSAdapter.generate behind the engine call: raw_text is result.text
AdapterGenerate(result) ==
    LET raw_text == result.text
        r == ParseHarmonyResponse(raw_text)
    IN  [text |-> r.final_text,
         tokens_generated |-> result.tokens_generated,
         finish_reason |-> AdapterFinishReason(DetectHarmonyStopReason(raw_text),
                                               result.finish_reason),
         analysis_channel |-> r.analysis_text]

\* create_message behind adapter.generate: the response text and stop_reason
MessagesResponse(result) ==
    [text |-> IF result.analysis_channel # <<>>
                THEN <<"<thinking>", "\n">> \o result.analysis_channel
                     \o <<"\n", "</thinking>", "\n", "\n">> \o result.text
                ELSE result.text,
     stop_reason |-> IF result.finish_reason = "stop" THEN "end_turn"
                     ELSE result.finish_reason,
     output_tokens |-> result.tokens_generated]

\* non_streaming_chat_completion behind adapter.generate: ChatChoice accepts
\* the finish_reason values of its Literal, pydantic raises on any other
ChatChoiceFinishReason(finish_reason) ==
    IF finish_reason \in {"stop", "length", "error"} THEN finish_reason
    ELSE "ValidationError"

\* the whole handler on the output `text` of the model
HandleMessages(text, maxTokens, tokenizer_ok, fault) ==
    LET result == AdapterGenerate(EngineGenerate(text, maxTokens, tokenizer_ok, fault))
        r == MessagesResponse(result)
    IN  [called |-> TRUE, tokenizer_ok |-> tokenizer_ok, fault |-> fault,
         finish_reason |-> result.finish_reason,
         analysis_channel |-> result.analysis_channel,
         text |-> r.text, stop_reason |-> r.stop_reason,
         output_tokens |-> r.output_tokens]

MsgIdle ==
    /\ max_tokens = 1
    /\ generated_text = <<>>
    /\ response = NotCalled

MsgInit ==
    /\ max_tokens \in 1..MaxTokens
    /\ generated_text = <<>>
    /\ response = NotCalled

\* mlx_lm.generate produces one more token of at most max_tokens
Mlx_EmitToken ==
    /\ response = NotCalled
    /\ Len(generated_text) < max_tokens
    /\ \E p \in OutputPieces : generated_text' = Append(generated_text, p)
    /\ UNCHANGED <<max_tokens, response, engVars, tokVars, strVars, streamVars,
                   laterVars>>

\* mlx_lm.generate returns and the handler runs to its return; the tokenizer
\* may fail to encode the output and the Harmony library may raise
CreateMessage ==
    /\ response = NotCalled
    /\ \E tokenizer_ok \in BOOLEAN, fault \in ParserFaults :
          response' = HandleMessages(generated_text, max_tokens, tokenizer_ok, fault)
    /\ UNCHANGED <<max_tokens, generated_text, engVars, tokVars, strVars, streamVars,
                   laterVars>>

(***************************************************************************)
(* Part VI.  GPTOSSAdapter.generate_stream: the channel filter             *)
(***************************************************************************)

\* buffer.split("<|channel|>")[1].split("<|message|>")[0]
ChannelMatch(buf) ==
    LET i == FirstIn(buf, {"<|channel|>"}, 1)
        n == FirstIn(buf, {"<|channel|>"}, i + 1)
        seg == SubSeq(buf, i + 1, IF n = 0 THEN Len(buf) ELSE n - 1)
        m == FirstIn(seg, {"<|message|>"}, 1)
    IN  IF m = 0 THEN seg ELSE SubSeq(seg, 1, m - 1)

\* buffer.split("<|message|>", 1)[1]
AfterFirstMessage(buf) == SubSeq(buf, FirstIn(buf, {"<|message|>"}, 1) + 1, Len(buf))

StreamIdle ==
    /\ stream_tokens = <<>>
    /\ buffer = <<>>
    /\ current_channel = NoneVal
    /\ in_final_channel = FALSE
    /\ yielded = <<>>

\* one iteration of `for chunk in stream_gen:` on the next chunk of the engine
AdapterStream_Iterate(token) ==
    LET buf == Append(buffer, token) IN
    /\ Len(stream_tokens) < MaxRawLen
    /\ stream_tokens' = Append(stream_tokens, token)
    /\ IF Contains(buf, "<|channel|>") /\ Contains(buf, "<|message|>")
         THEN /\ current_channel' = Some(Strip(ChannelMatch(buf)))
              /\ in_final_channel' = (Strip(ChannelMatch(buf)) = <<"final">>)
              /\ buffer' = AfterFirstMessage(buf)
              /\ yielded' = Append(yielded, FALSE)
         ELSE /\ buffer' = buf
              /\ yielded' = Append(yielded, in_final_channel /\ ~IsSpecial(token))
              /\ UNCHANGED <<current_channel, in_final_channel>>

\* the loop of generate_stream driven by an engine that yields any chunk
AdapterStream_Chunk ==
    /\ \E token \in OutputPieces : AdapterStream_Iterate(token)
    /\ UNCHANGED <<engVars, tokVars, strVars, msgVars, laterVars>>

\* what the client of generate_stream has received: the tokens of the
\* GenerationChunks yielded so far, concatenated
RECURSIVE YieldedFrom(_)
YieldedFrom(i) ==
    IF i > Len(yielded) THEN <<>>
    ELSE (IF yielded[i] THEN <<stream_tokens[i]>> ELSE <<>>) \o YieldedFrom(i + 1)
YieldedText == YieldedFrom(1)

(***************************************************************************)
(* Well-formed model outputs: a sequence of complete messages, the first   *)
(* one inside the assistant turn the prompt has opened, each later one     *)
(* behind <|start|>assistant.                                              *)
(***************************************************************************)
MessageContents == {<<>>, <<"x">>, <<" ">>}
OutputMessages ==
    [channel : {"final", "analysis"}, content : MessageContents,
     terminal : {"<|end|>", "<|return|>"}]
MessageLists == UNION {[1..n -> OutputMessages] : n \in 0..MaxMessages}

RenderMessage(msg) ==
    <<"<|channel|>", msg.channel, "<|message|>">> \o msg.content \o <<msg.terminal>>

RECURSIVE RenderFrom(_, _)
RenderFrom(msgs, i) ==
    IF i > Len(msgs) THEN <<>>
    ELSE (IF i = 1 THEN <<>> ELSE <<"<|start|>", "assistant">>)
         \o RenderMessage(msgs[i]) \o RenderFrom(msgs, i + 1)
RenderOutput(msgs) == RenderFrom(msgs, 1)

\* the content of the final-channel messages of an output, in emission order
RECURSIVE FinalContents(_)
FinalContents(messages) ==
    IF messages = <<>> THEN <<>>
    ELSE (IF Strip(Head(messages).channel) = <<"final">>
            THEN <<Head(messages).content>> ELSE <<>>)
         \o FinalContents(Tail(messages))
FinalMessagesOf(text) ==
    FinalContents(ParserProcessEos(ParserRun(ParserStart, Encode(text))).messages)

\* both parsers called on the same well-formed output
WellFormedInit ==
    \E msgs \in MessageLists :
        /\ call_raw_output = RenderOutput(msgs)
        /\ call_token_ids = Encode(RenderOutput(msgs))
        /\ parsed = NotCalled
        /\ harmony = NotCalled

(***************************************************************************)
(* Part VII.  inference/recovery.py: ErrorClassifier, RetryStrategy,       *)
(* GracefulDegradation and ResilientInference                              *)
(***************************************************************************)

\* An error is its class and the keywords its lowercased message contains.
ErrModelNotLoaded == [class |-> "ModelNotLoadedError", words |-> {}]
ErrContextLength == [class |-> "ContextLengthExceededError", words |-> {"context"}]
ErrOutOfMemory == [class |-> "GenerationError", words |-> {"memory"}]
ErrTimeout == [class |-> "GenerationError", words |-> {"timeout"}]
ErrCancelled == [class |-> "GenerationCancelledError", words |-> {}]
ErrInvalidParams == [class |-> "InvalidSamplingParamsError", words |-> {}]
ErrUnknown == [class |-> "GenerationError", words |-> {}]
Errors == {ErrModelNotLoaded, ErrContextLength, ErrOutOfMemory, ErrTimeout,
           ErrCancelled, ErrInvalidParams, ErrUnknown}
\* the function returned
Ok == [class |-> "ok", words |-> {}]
NoError == [class |-> "none", words |-> {}]

\* ErrorClassifier.classify
Classify(error) ==
    IF error.class = "ModelNotLoadedError"
      THEN [error_type |-> "fatal", can_retry |-> FALSE, can_degrade |-> FALSE]
    ELSE IF error.class = "ContextLengthExceededError"
      THEN [error_type |-> "degradable", can_retry |-> TRUE, can_degrade |-> TRUE]
    ELSE IF error.words \cap {"memory", "oom", "out of memory"} # {}
      THEN [error_type |-> "degradable", can_retry |-> TRUE, can_degrade |-> TRUE]
    ELSE IF error.words \cap {"timeout", "connection", "temporary", "unavailable",
                              "busy"} # {}
      THEN [error_type |-> "recoverable", can_retry |-> TRUE, can_degrade |-> FALSE]
    ELSE [error_type |-> "recoverable", can_retry |-> TRUE, can_degrade |-> FALSE]

\* GracefulDegradation.reduce_max_tokens with reduction_factor = percent / 100:
\* max(1, int(max_tokens * reduction_factor))
ReduceMaxTokens(maxTokens, percent) ==
    LET reduced == (maxTokens * percent) \div 100
    IN  IF reduced < 1 THEN 1 ELSE reduced

\* Optional[SamplingParams], a SamplingParams being its max_tokens (min_tokens
\* is 0, its default, so that the copy of reduce_max_tokens passes validation)
NoParams == [some |-> FALSE, val |-> 0]

\* GracefulDegradation.create_degraded_params
CreateDegradedParams(original_params, error) ==
    IF ~Classify(error).can_degrade THEN NoParams
    ELSE IF error.words \cap {"memory", "oom"} # {}
      THEN [some |-> TRUE, val |-> ReduceMaxTokens(original_params, 50)]
    ELSE IF error.class = "ContextLengthExceededError" \/ "context" \in error.words
      THEN [some |-> TRUE, val |-> ReduceMaxTokens(original_params, 70)]
    ELSE NoParams

\* `attempt += 1` in the except block of execute
NextAttemptStuck(a) == a
NextAttempt(a) == a + 1

\* sampling_params.max_tokens of the callers
ParamChoices == {1, 10}

RetryIdle ==
    /\ rcaller = "none"
    /\ rpc = "idle"
    /\ attempt = 0
    /\ last_error = NoError
    /\ sleeps = 0
    /\ call_log = <<>>
    /\ current_params = 1
    /\ degradations = 0

\* execute(func) or generate_with_recovery(engine, prompt, params) has been
\* called and is about to call the function for the first time
RetryInit(caller) ==
    /\ rcaller = caller
    /\ rpc = "r_call"
    /\ attempt = 0
    /\ last_error = NoError
    /\ sleeps = 0
    /\ call_log = <<>>
    /\ current_params \in ParamChoices
    /\ degradations = 0

\* result = func(*args, **kwargs): the function (engine.generate under
\* generate_with_recovery) returns or raises any error
Exec_Call ==
    /\ rpc = "r_call"
    /\ \E outcome \in {Ok} \cup Errors :
         /\ call_log' = Append(call_log, [max_tokens |-> current_params,
                                          degradations |-> degradations,
                                          outcome |-> outcome])
         /\ IF outcome = Ok
              THEN rpc' = "r_returned" /\ UNCHANGED last_error
              ELSE rpc' = "r_except" /\ last_error' = outcome
    /\ UNCHANGED <<rcaller, attempt, sleeps, current_params, degradations,
                   engVars, textVars, paramVars, moreVars>>

\* the except block of execute and the loop test behind it; retry_on is None
Exec_Handle ==
    /\ rpc = "r_except"
    /\ attempt' = NextAttempt(attempt)
    /\ LET classification == Classify(last_error) IN
       IF \/ classification.error_type = "fatal"
          \/ ~classification.can_retry
          \/ attempt' > MaxRetries
         THEN rpc' = "r_raised" /\ UNCHANGED sleeps
         ELSE /\ sleeps' = sleeps + 1
              /\ rpc' = IF attempt' <= MaxRetries THEN "r_call" ELSE "r_raised"
    /\ UNCHANGED <<rcaller, last_error, call_log, current_params, degradations,
                   engVars, textVars, paramVars, moreVars>>

\* the except blocks of generate_with_recovery (enable_degradation is True):
\* the first execute raised: degrade and call execute again, or re-raise;
\* the second execute raised: re-raise
Recovery_OnError ==
    /\ rcaller = "recovery"
    /\ rpc = "r_raised"
    /\ LET degraded_params == CreateDegradedParams(current_params, last_error) IN
       IF degradations = 0 /\ Classify(last_error).can_degrade /\ degraded_params.some
         THEN /\ current_params' = degraded_params.val
              /\ degradations' = 1
              /\ attempt' = 0
              /\ rpc' = "r_call"
         ELSE /\ rpc' = "g_raised"
              /\ UNCHANGED <<current_params, degradations, attempt>>
    /\ UNCHANGED <<rcaller, last_error, sleeps, call_log, engVars, textVars, paramVars, moreVars>>

(***************************************************************************)
(* Part VIII.  sampling/params.py: SamplingParams                          *)
(*                                                                         *)
(* temperature, top_p and the penalties are counted in tenths (10 is 1.0). *)
(* stop_sequences is always a list of strings and is left out.             *)
(***************************************************************************)
FieldNames == {"temperature", "top_p", "top_k", "max_tokens", "repetition_penalty",
               "presence_penalty", "frequency_penalty", "min_tokens", "seed"}

\* Optional[int]
NoSeed == [some |-> FALSE, val |-> 0]

\* the defaults of the dataclass fields
DefaultParams ==
    [temperature |-> 10, top_p |-> 10, top_k |-> 0, max_tokens |-> 512,
     repetition_penalty |-> 10, presence_penalty |-> 0, frequency_penalty |-> 0,
     min_tokens |-> 0, seed |-> NoSeed]

\* the values a caller passes for a field: the default, the ends of the allowed
\* range, and values just outside of it
FieldValues(k) ==
    CASE k = "temperature" -> {-1, 0, 10, 20, 21}
      [] k = "top_p" -> {-1, 0, 10, 11}
      [] k = "top_k" -> {-1, 0}
      [] k = "max_tokens" -> {0, 512} \cup 1..MaxParamTokens
      [] k = "repetition_penalty" -> {-1, 10}
      [] k = "presence_penalty" -> {-21, 0, 20}
      [] k = "frequency_penalty" -> {-21, 0, 20}
      [] k = "min_tokens" -> -1..(MaxParamTokens + 1)
      [] k = "seed" -> {NoSeed, [some |-> TRUE, val |-> -1], [some |-> TRUE, val |-> 0]}

\* SamplingParams.validate: TRUE when it raises nothing
ValidateNothing(p) == TRUE
Validate(p) ==
    /\ 0 <= p.temperature /\ p.temperature <= 20
    /\ 0 <= p.top_p /\ p.top_p <= 10
    /\ ~(p.top_k < 0)
    /\ ~(p.max_tokens <= 0)
    /\ ~(p.min_tokens < 0)
    /\ ~(p.min_tokens > p.max_tokens)
    /\ ~(p.repetition_penalty < 0)
    /\ -20 <= p.presence_penalty /\ p.presence_penalty <= 20
    /\ -20 <= p.frequency_penalty /\ p.frequency_penalty <= 20
    /\ ~(p.seed.some /\ p.seed.val < 0)

\* SamplingParams(**kwargs): the fields not given take their defaults, and
\* __post_init__ validates
NewSamplingParams(kwargs) ==
    LET p == [k \in FieldNames |-> IF k \in DOMAIN kwargs THEN kwargs[k]
                                   ELSE DefaultParams[k]]
    IN  IF Validate(p) THEN [status |-> "ok", value |-> p]
        ELSE [status |-> "ValueError"]

\* SamplingParams.from_dict: the keys that are no fields are dropped
FromDict(params_dict) ==
    NewSamplingParams([k \in DOMAIN params_dict \cap FieldNames |-> params_dict[k]])

\* SamplingParams.to_dict
ToDict(p) == [k \in FieldNames |-> p[k]]

\* SamplingParams.copy: params_dict = self.to_dict(); params_dict.update(overrides)
CopyParams(p, overrides) ==
    FromDict([k \in FieldNames \cup DOMAIN overrides |->
                 IF k \in DOMAIN overrides THEN overrides[k] ELSE ToDict(p)[k]])

\* the dictionaries a caller passes: values for all fields, for one field, or
\* for one field and a key that is no field
FullDicts ==
    [temperature : FieldValues("temperature"), top_p : FieldValues("top_p"),
     top_k : FieldValues("top_k"), max_tokens : FieldValues("max_tokens"),
     repetition_penalty : FieldValues("repetition_penalty"),
     presence_penalty : FieldValues("presence_penalty"),
     frequency_penalty : FieldValues("frequency_penalty"),
     min_tokens : FieldValues("min_tokens"), seed : FieldValues("seed")]
OneFieldDicts ==
    UNION {{[x \in {k} |-> v] : v \in FieldValues(k)} : k \in FieldNames}
WithUnknownKey(d) == [k \in DOMAIN d \cup {"unknown"} |-> IF k \in DOMAIN d THEN d[k] ELSE 0]

ParamsIdle ==
    /\ params_obj = NotCalled
    /\ copy_obj = NotCalled

\* SamplingParams(**kwargs)
SP_Construct ==
    /\ params_obj = NotCalled
    /\ \E kwargs \in FullDicts \cup OneFieldDicts :
          params_obj' = [called |-> TRUE, by |-> "constructor",
                         result |-> NewSamplingParams(kwargs)]
    /\ UNCHANGED <<copy_obj, engVars, textVars, retryVars, moreVars>>

\* SamplingParams.from_dict(params_dict)
SP_FromDict ==
    /\ params_obj = NotCalled
    /\ \E d \in OneFieldDicts, unknown \in BOOLEAN :
          params_obj' = [called |-> TRUE, by |-> "from_dict",
                         result |-> FromDict(IF unknown THEN WithUnknownKey(d) ELSE d)]
    /\ UNCHANGED <<copy_obj, engVars, textVars, retryVars, moreVars>>

\* params.copy(**overrides) on the value that was produced
SP_Copy ==
    /\ params_obj # NotCalled
    /\ params_obj.result.status = "ok"
    /\ copy_obj = NotCalled
    /\ \E overrides \in OneFieldDicts \cup {<<>>}, unknown \in BOOLEAN :
         LET o == IF unknown THEN WithUnknownKey(overrides) ELSE overrides
         IN  copy_obj' = [called |-> TRUE, overrides |-> o,
                          result |-> CopyParams(params_obj.result.value, o)]
    /\ UNCHANGED <<params_obj, engVars, textVars, retryVars, moreVars>>

(***************************************************************************)
(* Part IX.  routes/chat.py: stream_chat_completion                        *)
(***************************************************************************)
ChatStreamIdle ==
    /\ stream_parser = ParserStart
    /\ sse = <<>>

\* the loop is entered and not left: the role chunk was sent, [DONE] was not
ChatStreaming == sse # <<>> /\ sse[Len(sse)] # "done"

\* the initial chunk, delta.role = "assistant"
ChatStream_Begin ==
    /\ sse = <<>>
    /\ sse' = <<"role">>
    /\ UNCHANGED <<stream_parser, streamVars, exceptChat>>

\* One token of mlx_lm.stream_generate through the three layers: the engine
\* runs it through its StreamableParser and yields a chunk whose is_final says
\* that the parser's current channel is final (False when process raised),
\* the adapter filters the chunk, the route turns a chunk it receives into a
\* content chunk and, when chunk.is_final, a chunk with finish_reason.
ChatStream_Chunk ==
    /\ ChatStreaming
    /\ \E token \in OutputPieces :
         LET ps == ParserProcess(stream_parser, TokenId(token))
             is_final == ps # stream_parser /\ ps.channel = <<"final">>
         IN  /\ AdapterStream_Iterate(token)
             /\ stream_parser' = ps
             /\ sse' = sse \o (IF yielded'[Len(yielded')]
                                 THEN <<"content">> \o
                                      (IF is_final THEN <<"finish">> ELSE <<>>)
                                 ELSE <<>>)
    /\ UNCHANGED exceptChat

\* the engine's generator is exhausted: the [DONE] marker
ChatStream_Done ==
    /\ ChatStreaming
    /\ sse' = Append(sse, "done")
    /\ UNCHANGED <<stream_parser, streamVars, exceptChat>>

\* the generator raises: `except Exception` sends the error and [DONE]
ChatStream_Error ==
    /\ ChatStreaming
    /\ sse' = sse \o <<"error", "done">>
    /\ UNCHANGED <<stream_parser, streamVars, exceptChat>>

(***************************************************************************)
(* Part X.  GPTOSSAdapter: life cycle, message validation, prompt          *)
(***************************************************************************)
\* the messages of a request: role and content of each, content as pieces
InputRoles == {"system", "user", "assistant", "tool"}
InputContents == {<<>>, <<Blank>>, <<"x">>, <<"x", "x">>}
InputMessages == [role : InputRoles, content : InputContents]
InputMessageLists ==
    UNION {[1..n -> InputMessages] : n \in 0..MaxInputMessages}
\* params.temperature of the request, in tenths
Temperatures == {3, 5, 8}

AdapterIdle ==
    /\ loaded = FALSE
    /\ engine_set = FALSE
    /\ adapter_call = NotCalled

\* _validate_messages: "ok", or the ValueError raised
ValidateMessagesNoStrip(messages) ==
    IF messages = <<>> THEN "ValueError"
    ELSE IF \E i \in 1..Len(messages) :
              \/ messages[i].role \notin {"system", "user", "assistant"}
              \/ messages[i].content = <<>>
      THEN "ValueError"
      ELSE "ok"

ValidateMessages(messages) ==
    IF messages = <<>> THEN "ValueError"
    ELSE IF \E i \in 1..Len(messages) :
              \/ messages[i].role \notin {"system", "user", "assistant"}
              \/ Strip(messages[i].content) = <<>>
      THEN "ValueError"
      ELSE "ok"

\* _build_harmony_system_message
HarmonySystemMessage(temperature) ==
    <<"<|start|>", "system", "<|message|>",
      "You are ChatGPT, a large language model trained by OpenAI.\n",
      "Knowledge cutoff: 2024-06\n", "Current date: ",
      IF temperature <= 3 THEN "Reasoning: low"
      ELSE IF temperature >= 8 THEN "Reasoning: high" ELSE "Reasoning: medium",
      "# Valid channels: analysis, commentary, final. ", "<|end|>">>

\* _build_harmony_developer_message: the content of the first system message
HarmonyDeveloperMessage(messages) ==
    LET sys == {i \in 1..Len(messages) : messages[i].role = "system"}
        first == CHOOSE i \in sys : \A j \in sys : i <= j
        system_content == IF sys = {} THEN <<>> ELSE messages[first].content
    IN  <<"<|start|>", "developer", "<|message|>", "# Instructions\n\n">>
        \o (IF system_content = <<>> THEN <<"You are a helpful AI assistant.">>
            ELSE system_content)
        \o <<"<|end|>">>

\* _build_harmony_conversation
RECURSIVE HarmonyConversation(_)
HarmonyConversation(messages) ==
    IF messages = <<>> THEN <<>>
    ELSE LET msg == Head(messages) IN
         (CASE msg.role = "user" ->
                 <<"<|start|>", "user", "<|message|>">> \o msg.content \o <<"<|end|>">>
            [] msg.role = "assistant" ->
                 <<"<|start|>", "assistant", "<|channel|>", "final", "<|message|>">>
                 \o msg.content \o <<"<|end|>">>
            [] OTHER -> <<>>)
         \o HarmonyConversation(Tail(messages))

\* _build_prompt, with a trailing <|end|> behind the generation prompt
BuildPromptClosed(messages, temperature) ==
    HarmonySystemMessage(temperature) \o HarmonyDeveloperMessage(messages)
    \o HarmonyConversation(messages) \o <<"<|start|>", "assistant", "<|end|>">>

\* _build_prompt
BuildPrompt(messages, temperature) ==
    HarmonySystemMessage(temperature) \o HarmonyDeveloperMessage(messages)
    \o HarmonyConversation(messages) \o <<"<|start|>", "assistant">>

\* TextContent(text=content) as render_conversation_for_completion encodes it:
\* the characters of a special token inside a message content are either
\* encoded as ordinary text (literal) or as the special token itself, as the
\* encoding of the openai_harmony library decides
TextContent(content, literal) ==
    [i \in 1..Len(content) |->
       IF literal /\ IsSpecial(content[i])
         THEN CASE content[i] = "<|start|>" -> "'<|start|>'"
                [] content[i] = "<|end|>" -> "'<|end|>'"
                [] content[i] = "<|message|>" -> "'<|message|>'"
                [] content[i] = "<|channel|>" -> "'<|channel|>'"
                [] content[i] = "<|return|>" -> "'<|return|>'"
                [] OTHER -> "'<|call|>'"
         ELSE content[i]]

\* InferenceEngine.generate and generate_stream, "BUILD HARMONY PROMPT": the
\* token ids handed to mlx_lm.  build_conversation puts SystemContent.new()
\* in front, whose reasoning effort is the library's default_effort, then the
\* developer instructions, then the whole prompt of the caller as the content
\* of one user message, then the generation prompt
EnginePromptTokens(prompt, default_effort, literal) ==
    <<"<|start|>", "system", "<|message|>",
      CASE default_effort = "low" -> "Reasoning: low"
        [] default_effort = "high" -> "Reasoning: high"
        [] OTHER -> "Reasoning: medium",
      "<|end|>">>
    \o <<"<|start|>", "developer", "<|message|>", "# Instructions\n\n",
         "You are a helpful, harmless, and honest AI assistant.", "<|end|>">>
    \o <<"<|start|>", "user", "<|message|>">> \o TextContent(prompt, literal)
    \o <<"<|end|>", "<|start|>", "assistant">>

\* load_model: nothing when loaded; else the loader succeeds and the engine
\* is created, or something raises before that
Adapter_LoadModel ==
    /\ ~loaded
    /\ \E ok \in BOOLEAN :
         IF ok THEN engine_set' = TRUE /\ loaded' = TRUE
               ELSE loaded' = FALSE /\ UNCHANGED engine_set
    /\ UNCHANGED <<adapter_call, exceptAdapter>>

\* unload_model: nothing when not loaded; else the engine is released, and
\* _loaded is cleared unless mx.metal.clear_cache() (device MPS) raises
Adapter_UnloadModel ==
    /\ loaded
    /\ engine_set' = FALSE
    /\ \E cache_raises \in BOOLEAN : loaded' = cache_raises
    /\ UNCHANGED <<adapter_call, exceptAdapter>>

\* generate and generate_stream up to the call of the engine; the model
\* follows one call, made at any point of the adapter's life
Adapter_Generate ==
    /\ adapter_call = NotCalled
    /\ \E stream \in BOOLEAN, messages \in InputMessageLists,
          temperature \in Temperatures, engine_ok \in BOOLEAN,
          default_effort \in {"low", "medium", "high"}, literal \in BOOLEAN :
         LET valid == ValidateMessages(messages) = "ok"
             call == [called |-> TRUE, stream |-> stream, messages |-> messages,
                      temperature |-> temperature,
                      was_loaded |-> loaded, had_engine |-> engine_set]
         IN  adapter_call' =
               IF ~loaded
                 THEN call @@ [error |-> "ModelNotLoadedError", prompt |-> NoneVal,
                               prompt_tokens |-> NoneVal, engine_called |-> FALSE]
               ELSE IF ~valid
                 THEN call @@ [error |-> "InvalidMessagesError", prompt |-> NoneVal,
                               prompt_tokens |-> NoneVal, engine_called |-> FALSE]
               ELSE IF ~engine_set
                 THEN call @@ [error |-> "GenerationError",
                               prompt |-> Some(BuildPrompt(messages, temperature)),
                               prompt_tokens |-> NoneVal, engine_called |-> FALSE]
               ELSE call @@ [error |-> IF engine_ok THEN "none" ELSE "GenerationError",
                             prompt |-> Some(BuildPrompt(messages, temperature)),
                             prompt_tokens |->
                               Some(EnginePromptTokens(BuildPrompt(messages, temperature),
                                                       default_effort, literal)),
                             engine_called |-> TRUE]
    /\ UNCHANGED <<loaded, engine_set, exceptAdapter>>

(***************************************************************************)
(* Part XI.  inference/batch.py: BatchInferenceEngine.generate_batch       *)
(***************************************************************************)
BatchIdle ==
    /\ batch_pc = "idle"
    /\ prompts = 0
    /\ futures = <<>>
    /\ collected = <<>>
    /\ results = <<>>
    /\ successful_count = 0
    /\ failed_count = 0

\* what the engine returned for prompt i, and the placeholder of a failure
ResultOf(i) == [prompt |-> i, finish_reason |-> "stop"]
Placeholder == [prompt |-> 0, finish_reason |-> "error"]
NoResult == [prompt |-> 0, finish_reason |-> "None"]

\* generate_batch: the empty batch returns at once, any other goes to
\* _generate_sequential or _generate_parallel
Batch_Begin ==
    /\ batch_pc = "idle"
    /\ \E n \in 0..MaxPrompts, parallel \in BOOLEAN :
         /\ prompts' = n
         /\ futures' = [i \in 1..n |-> "pending"]
         /\ batch_pc' = IF n = 0 THEN "returned"
                        ELSE IF parallel THEN "parallel" ELSE "sequential"
         /\ results' = IF n > 0 /\ parallel THEN [i \in 1..n |-> NoResult] ELSE <<>>
    /\ UNCHANGED <<collected, successful_count, failed_count, exceptBatch>>

\* results[i] = result, written at the slot of the first missing result
StoreAtFirstFree(rs, i, result) ==
    LET free == {k \in 1..Len(rs) : rs[k] = NoResult}
    IN  [rs EXCEPT ![CHOOSE k \in free : \A j \in free : k <= j] = result]

\* results[i] = result
StoreAt(rs, i, result) == [rs EXCEPT ![i] = result]

\* one iteration of the loop of _generate_sequential
Batch_SequentialStep ==
    /\ batch_pc = "sequential"
    /\ Len(results) < prompts
    /\ LET i == Len(results) + 1 IN
       \E raises \in BOOLEAN :
         /\ futures' = [futures EXCEPT ![i] = IF raises THEN "raise" ELSE "ok"]
         /\ results' = Append(results, IF raises THEN Placeholder ELSE ResultOf(i))
         /\ successful_count' = successful_count + (IF raises THEN 0 ELSE 1)
         /\ failed_count' = failed_count + (IF raises THEN 1 ELSE 0)
         /\ collected' = Append(collected, i)
    /\ UNCHANGED <<batch_pc, prompts, exceptBatch>>

\* a worker of the pool finishes engine.generate for one prompt
Batch_WorkerDone ==
    /\ batch_pc = "parallel"
    /\ \E i \in 1..prompts, raises \in BOOLEAN :
         /\ futures[i] = "pending"
         /\ futures' = [futures EXCEPT ![i] = IF raises THEN "raise" ELSE "ok"]
    /\ UNCHANGED <<batch_pc, prompts, collected, results, successful_count,
                   failed_count, exceptBatch>>

\* one iteration of `for future in as_completed(future_to_index)`
Batch_Collect ==
    /\ batch_pc = "parallel"
    /\ \E i \in 1..prompts :
         /\ futures[i] # "pending"
         /\ \A k \in 1..Len(collected) : collected[k] # i
         /\ collected' = Append(collected, i)
         /\ results' = StoreAt(results, i, IF futures[i] = "raise" THEN Placeholder
                                          ELSE ResultOf(i))
         /\ successful_count' = successful_count + (IF futures[i] = "ok" THEN 1 ELSE 0)
         /\ failed_count' = failed_count + (IF futures[i] = "raise" THEN 1 ELSE 0)
    /\ UNCHANGED <<batch_pc, prompts, futures, exceptBatch>>

\* the loop is over: return BatchGenerationResult(...)
Batch_Return ==
    /\ batch_pc \in {"sequential", "parallel"}
    /\ Len(collected) = prompts
    /\ batch_pc' = "returned"
    /\ UNCHANGED <<prompts, futures, collected, results, successful_count,
                   failed_count, exceptBatch>>

(***************************************************************************)
(* Part XII.  inference/optimization.py: MemoryAwareGenerator              *)
(***************************************************************************)
\* adjust_max_tokens on sampling_params.max_tokens = maxTokens when the
\* monitor reports available_bytes bytes beyond the safety margin (the sign
\* of available_gb is the sign of available_bytes); 8 bytes per token
AdjustMaxTokens(maxTokens, available_bytes) ==
    IF available_bytes <= 0 THEN 32
    ELSE LET safe_tokens == available_bytes \div 8
             smaller == IF maxTokens <= safe_tokens THEN maxTokens ELSE safe_tokens
             adjusted_max_tokens == IF smaller >= 32 THEN smaller ELSE 32
         IN  IF adjusted_max_tokens < maxTokens THEN adjusted_max_tokens ELSE maxTokens

AdjustIdle == adjusted = NotCalled

\* one call, on valid parameters (max_tokens >= 1) and any memory reading
Mem_AdjustMaxTokens ==
    /\ adjusted = NotCalled
    /\ \E maxTokens \in 1..MaxRequestTokens,
          available_bytes \in (-8)..(8 * MaxRequestTokens + 8) :
         adjusted' = [called |-> TRUE, requested |-> maxTokens,
                      available_bytes |-> available_bytes,
                      max_tokens |-> AdjustMaxTokens(maxTokens, available_bytes)]
    /\ UNCHANGED exceptAdjust

(***************************************************************************)
(* Part XIII.  inference/streaming.py: StreamController                    *)
(***************************************************************************)
CtlIdle ==
    /\ ctl_state = "idle"
    /\ ctl_lock = "free"
    /\ pause_event = TRUE
    /\ total_tokens = 0
    /\ cpc = "idle"
    /\ wpc = "wait"
    /\ ctl_call = NotCalled

\* threading.Lock: acquire() goes through only when nobody holds the lock,
\* the calling thread included
LockAcquirable(holder, thread) == holder = "free"

\* the fields of the controller a method reads and writes
CtlFields(state, event, tokens) == [state |-> state, event |-> event, tokens |-> tokens]

\* start acting in every state
AfterMethodStartAnywhere(method, f) ==
    CASE method = "start" -> CtlFields("running", TRUE, 0)
      [] method = "pause" ->
           IF f.state # "running" THEN f ELSE CtlFields("paused", FALSE, f.tokens)
      [] method = "resume" ->
           IF f.state # "paused" THEN f ELSE CtlFields("running", TRUE, f.tokens)
      [] method = "complete" ->
           IF f.state \notin {"running", "paused"} THEN f
           ELSE CtlFields("completed", TRUE, f.tokens)
      [] method = "error" -> CtlFields("error", TRUE, f.tokens)
      [] method = "reset" -> CtlFields("idle", TRUE, 0)

\* error() leaving the pause event as it is
AfterMethodErrorKeepsEvent(method, f) ==
    CASE method = "start" ->
           IF f.state # "idle" THEN f ELSE CtlFields("running", TRUE, 0)
      [] method = "pause" ->
           IF f.state # "running" THEN f ELSE CtlFields("paused", FALSE, f.tokens)
      [] method = "resume" ->
           IF f.state # "paused" THEN f ELSE CtlFields("running", TRUE, f.tokens)
      [] method = "complete" ->
           IF f.state \notin {"running", "paused"} THEN f
           ELSE CtlFields("completed", TRUE, f.tokens)
      [] method = "error" -> CtlFields("error", f.event, f.tokens)
      [] method = "reset" -> CtlFields("idle", TRUE, 0)

\* start, pause, resume, complete, error and reset: the fields behind the call
AfterMethod(method, f) ==
    CASE method = "start" ->
           IF f.state # "idle" THEN f ELSE CtlFields("running", TRUE, 0)
      [] method = "pause" ->
           IF f.state # "running" THEN f ELSE CtlFields("paused", FALSE, f.tokens)
      [] method = "resume" ->
           IF f.state # "paused" THEN f ELSE CtlFields("running", TRUE, f.tokens)
      [] method = "complete" ->
           IF f.state \notin {"running", "paused"} THEN f
           ELSE CtlFields("completed", TRUE, f.tokens)
      [] method = "error" -> CtlFields("error", TRUE, f.tokens)
      [] method = "reset" -> CtlFields("idle", TRUE, 0)

\* the control thread calls one of these methods; its `with self._lock:` block
\* runs as one step once the lock is free
Ctl_Call ==
    /\ cpc = "idle"
    /\ LockAcquirable(ctl_lock, "control")
    /\ \E method \in {"start", "pause", "resume", "complete", "error", "reset"} :
         LET before == CtlFields(ctl_state, pause_event, total_tokens)
             after == AfterMethod(method, before)
         IN  /\ ctl_state' = after.state
             /\ pause_event' = after.event
             /\ total_tokens' = after.tokens
             /\ ctl_call' = [called |-> TRUE, method |-> method, before |-> before,
                             after |-> after]
    /\ UNCHANGED <<ctl_lock, cpc, wpc, exceptCtl>>

\* cancel(): `with self._lock:` is entered
Ctl_CancelCall ==
    /\ cpc = "idle"
    /\ LockAcquirable(ctl_lock, "control")
    /\ ctl_lock' = "control"
    /\ cpc' = "cancel"
    /\ UNCHANGED <<ctl_state, pause_event, total_tokens, wpc, ctl_call, exceptCtl>>

\* cancel(): `if not self.is_active:` reads the property, which takes
\* self._lock itself; behind it the state is set, the event is set and the
\* lock is released
Ctl_CancelIsActive ==
    /\ cpc = "cancel"
    /\ IF LockAcquirable(ctl_lock, "control")
         THEN /\ ctl_state' = IF ctl_state \in {"running", "paused"} THEN "cancelled"
                              ELSE ctl_state
              /\ pause_event' = (pause_event \/ ctl_state \in {"running", "paused"})
              /\ ctl_lock' = "free"
              /\ cpc' = "idle"
         ELSE /\ cpc' = "cancel_blocked"
              /\ UNCHANGED <<ctl_state, pause_event, ctl_lock>>
    /\ UNCHANGED <<total_tokens, wpc, ctl_call, exceptCtl>>

\* the streaming loop: wait_if_paused() returns when the event is set
Worker_WaitIfPaused ==
    /\ wpc = "wait"
    /\ pause_event
    /\ wpc' = "token"
    /\ UNCHANGED <<ctl_state, ctl_lock, pause_event, total_tokens, cpc, ctl_call, exceptCtl>>

\* the streaming loop: increment_tokens() for the token produced
Worker_IncrementTokens ==
    /\ wpc = "token"
    /\ total_tokens < MaxCtlTokens
    /\ LockAcquirable(ctl_lock, "worker")
    /\ total_tokens' = total_tokens + 1
    /\ wpc' = "wait"
    /\ UNCHANGED <<ctl_state, ctl_lock, pause_event, cpc, ctl_call, exceptCtl>>

(***************************************************************************)
(* Part XIV.  inference/recovery.py: the functions of GracefulDegradation   *)
(*                                                                         *)
(* A prompt is a sequence of characters.                                   *)
(***************************************************************************)
DegrIdle ==
    /\ truncated = NotCalled
    /\ degraded = NotCalled

Prompts == UNION {[1..n -> {"a", "b"}] : n \in 0..MaxPromptLen}

\* GracefulDegradation.truncate_prompt.  FromIndex(i) is prompt[i:] and
\* ToIndex(j) is prompt[:j] of Python: a negative index counts from the end,
\* an index outside of the string is clipped, and -0 is 0
TruncatePrompt(prompt, max_length, truncation_strategy) ==
    LET n == Len(prompt)
        Clip(i) == IF i < 0 THEN (IF n + i < 0 THEN 0 ELSE n + i)
                   ELSE (IF i > n THEN n ELSE i)
        FromIndex(i) == SubSeq(prompt, Clip(i) + 1, n)
        ToIndex(j) == SubSeq(prompt, 1, Clip(j))
        dots == <<".", ".", ".">>
    IN  IF n <= max_length THEN prompt
        ELSE IF truncation_strategy = "start"
          THEN dots \o FromIndex(-(max_length - 3))
        ELSE IF truncation_strategy = "middle"
          THEN LET half == (max_length - 3) \div 2
               IN  ToIndex(half) \o dots \o FromIndex(-half)
        ELSE ToIndex(max_length - 3) \o dots

Degr_TruncatePrompt ==
    /\ truncated = NotCalled
    /\ \E prompt \in Prompts, max_length \in 0..MaxLength,
          truncation_strategy \in {"start", "middle", "end"} :
         truncated' = [called |-> TRUE, prompt |-> prompt, max_length |-> max_length,
                       truncation_strategy |-> truncation_strategy,
                       result |-> TruncatePrompt(prompt, max_length, truncation_strategy)]
    /\ UNCHANGED <<degraded, exceptDegr>>

\* the valid SamplingParams handed to create_degraded_params
DegradableParams ==
    {p \in {[DefaultParams EXCEPT !.max_tokens = mx, !.min_tokens = mn] :
               mx \in 1..MaxDegradeTokens, mn \in 0..MaxDegradeTokens} : Validate(p)}

\* GracefulDegradation.create_degraded_params on a SamplingParams object, with
\* reduce_max_tokens: sampling_params.copy(max_tokens=new_max_tokens).
\* "None" when nothing is returned, "ValueError" when the copy raises
CreateDegradedSamplingParams(original_params, error) ==
    LET Reduce(percent) ==
            CopyParams(original_params,
                       [max_tokens |-> ReduceMaxTokens(original_params.max_tokens, percent)])
    IN  IF ~Classify(error).can_degrade THEN [status |-> "None"]
        ELSE IF error.words \cap {"memory", "oom"} # {} THEN Reduce(50)
        ELSE IF error.class = "ContextLengthExceededError" \/ "context" \in error.words
          THEN Reduce(70)
        ELSE [status |-> "None"]

Degr_CreateDegradedParams ==
    /\ degraded = NotCalled
    /\ \E original_params \in DegradableParams, error \in Errors :
         degraded' = [called |-> TRUE, original_params |-> original_params,
                      error |-> error,
                      outcome |-> CreateDegradedSamplingParams(original_params, error)]
    /\ UNCHANGED <<truncated, exceptDegr>>

(***************************************************************************)
(* Part XV.  inference/streaming.py: TokenBuffer with a callback            *)
(*                                                                         *)
(* _full_text and what the callback receives are kept as token sequences;   *)
(* delivered is the concatenation of all strings passed to the callback.   *)
(***************************************************************************)
\* TokenBuffer.flush
Flush(tb) ==
    IF tb.pending_tokens = <<>> THEN tb
    ELSE [tb EXCEPT !.pending_tokens = <<>>, !.delivered = @ \o tb.pending_tokens]

\* TokenBuffer.add_token
AddToken(tb, token) ==
    LET added == [tb EXCEPT !.full_text = Append(@, token),
                            !.pending_tokens = Append(@, token)]
    IN  IF tb.auto_flush /\ Len(added.pending_tokens) >= tb.buffer_size
          THEN Flush(added)
        ELSE IF ~tb.auto_flush
          THEN [added EXCEPT !.delivered = Append(@, token)]
        ELSE added

\* TokenBuffer(callback, buffer_size, auto_flush)
Buf_New ==
    /\ token_buffer = NotCalled
    /\ \E buffer_size \in 1..MaxBufferSize, auto_flush \in BOOLEAN :
         token_buffer' = [called |-> TRUE, auto_flush |-> auto_flush,
                          buffer_size |-> buffer_size, full_text |-> <<>>,
                          pending_tokens |-> <<>>, delivered |-> <<>>]
    /\ UNCHANGED exceptBuf

Buf_AddToken ==
    /\ token_buffer.called
    /\ Len(token_buffer.full_text) < MaxBufferTokens
    /\ \E token \in {"a", "b"} : token_buffer' = AddToken(token_buffer, token)
    /\ UNCHANGED exceptBuf

Buf_Flush ==
    /\ token_buffer.called
    /\ token_buffer' = Flush(token_buffer)
    /\ UNCHANGED exceptBuf

(***************************************************************************)
(* Specifications                                                          *)
(***************************************************************************)
\* no call of the parts behind Part VI is in progress
MoreIdle ==
    /\ ChatStreamIdle /\ AdapterIdle /\ BatchIdle /\ AdjustIdle /\ CtlIdle /\ DegrIdle
    /\ token_buffer = NotCalled
LaterIdle == RetryIdle /\ ParamsIdle /\ MoreIdle

Init == EngInit /\ TokIdle /\ StrIdle /\ MsgIdle /\ StreamIdle /\ LaterIdle
Next == EngNext

\* any interleaving of generate, generate_stream and cancel_generation calls
Spec == Init /\ [][Next]_vars

\* The users of _mlx_lock: generate_stream and cancel_generation never touch the
\* lock, so the concurrent generate calls alone decide who holds it.
LockNext ==
    \/ \E t \in Threads : Generate_Begin(t)
    \/ \E t \in Threads : GenerateStep(t)

\* concurrent generate calls in which every thread that is inside generate is
\* scheduled again and every engine call ends (by returning or by raising)
FairSpec == Init /\ [][LockNext]_vars /\ \A t \in Threads : WF_vars(GenerateStep(t))

\* parse_response_tokens called once on any token list
TokenParserInit == EngInit /\ TokInit /\ StrIdle /\ MsgIdle /\ StreamIdle /\ LaterIdle
TokenParserSpec == TokenParserInit /\ [][ParseTokens]_vars

\* _parse_harmony_response called once on any raw output
StringParserInit == EngInit /\ TokIdle /\ StrInit /\ MsgIdle /\ StreamIdle /\ LaterIdle
StringParserSpec == StringParserInit /\ [][ParseHarmony]_vars

\* one request to /v1/messages on any output of the model
MessagesInit == EngInit /\ TokIdle /\ StrIdle /\ MsgInit /\ StreamIdle /\ LaterIdle
MessagesNext == Mlx_EmitToken \/ CreateMessage
MessagesSpec == MessagesInit /\ [][MessagesNext]_vars

\* one call of GPTOSSAdapter.generate_stream on any stream of engine tokens
StreamFilterInit == EngInit /\ TokIdle /\ StrIdle /\ MsgIdle /\ StreamIdle /\ LaterIdle
StreamFilterSpec == StreamFilterInit /\ [][AdapterStream_Chunk]_vars

\* one request to POST /v1/messages for which the model emits a well-formed
\* output and stops by itself before max_tokens
WellFormedMessagesInit ==
    /\ EngInit /\ TokIdle /\ StrIdle /\ StreamIdle /\ LaterIdle
    /\ \E msgs \in MessageLists, spare \in 1..MaxTokens :
         /\ generated_text = RenderOutput(msgs)
         /\ max_tokens = Len(generated_text) + spare
    /\ response = NotCalled
WellFormedMessagesSpec == WellFormedMessagesInit /\ [][CreateMessage]_vars

\* the token parser and the string parser called on any well-formed output
WellFormedParsersInit == EngInit /\ WellFormedInit /\ MsgIdle /\ StreamIdle /\ LaterIdle
WellFormedParsersNext == ParseTokens \/ ParseHarmony
WellFormedParsersSpec == WellFormedParsersInit /\ [][WellFormedParsersNext]_vars

\* no call of Parts I to VI is in progress
EarlierIdle == EngInit /\ TokIdle /\ StrIdle /\ MsgIdle /\ StreamIdle

\* RetryStrategy.execute called on a function that returns or raises anything
RetryInitDirect == EarlierIdle /\ RetryInit("direct") /\ ParamsIdle /\ MoreIdle
RetryNext == Exec_Call \/ Exec_Handle
RetrySpec == RetryInitDirect /\ [][RetryNext]_vars
\* the function returns or raises each time it is called, and execute goes on
RetryFairSpec == RetrySpec /\ WF_vars(RetryNext)

\* ResilientInference.generate_with_recovery on an engine that returns or
\* raises anything
RecoveryInit == EarlierIdle /\ RetryInit("recovery") /\ ParamsIdle /\ MoreIdle
RecoveryNext == Exec_Call \/ Exec_Handle \/ Recovery_OnError
RecoverySpec == RecoveryInit /\ [][RecoveryNext]_vars

\* SamplingParams values made by the constructor or from_dict, then copied
SamplingParamsInit == EarlierIdle /\ RetryIdle /\ ParamsIdle /\ MoreIdle
SamplingParamsNext == SP_Construct \/ SP_FromDict \/ SP_Copy
SamplingParamsSpec == SamplingParamsInit /\ [][SamplingParamsNext]_vars

ChatStreamNext == ChatStream_Begin \/ ChatStream_Chunk \/ ChatStream_Done \/ ChatStream_Error
ChatStreamSpec == Init /\ [][ChatStreamNext]_vars

AdapterNext == Adapter_LoadModel \/ Adapter_UnloadModel \/ Adapter_Generate
AdapterSpec == Init /\ [][AdapterNext]_vars

BatchNext ==
    Batch_Begin \/ Batch_SequentialStep \/ Batch_WorkerDone \/ Batch_Collect \/ Batch_Return
BatchSpec == Init /\ [][BatchNext]_vars

MemoryAwareSpec == Init /\ [][Mem_AdjustMaxTokens]_vars

ControllerNext ==
    \/ Ctl_Call \/ Ctl_CancelCall \/ Ctl_CancelIsActive
    \/ Worker_WaitIfPaused \/ Worker_IncrementTokens
ControllerSpec == Init /\ [][ControllerNext]_vars
\* every thread that can take a step takes one in the end
ControllerFairSpec == ControllerSpec /\ WF_vars(ControllerNext)

TruncateSpec == Init /\ [][Degr_TruncatePrompt]_vars

DegradeSpec == Init /\ [][Degr_CreateDegradedParams]_vars

TokenBufferNext == Buf_New \/ Buf_AddToken \/ Buf_Flush
TokenBufferSpec == Init /\ [][TokenBufferNext]_vars

(***************************************************************************)
(* Claims                                                                  *)
(***************************************************************************)

\* C1: for any interleaving of concurrent InferenceEngine.generate calls (the
\* worker threads of BatchInferenceEngine._generate_parallel included), at most
\* one call is inside mlx_lm.generate at any time.
C1_AtMostOneInEngine == Cardinality({t \in Threads : pc[t] = "g_engine"}) <= 1

\* C1 witness: one call is inside mlx_lm.generate while another waits at the lock
C1_Contended == \E t, u \in Threads : t # u /\ pc[t] = "g_engine" /\ pc[u] = "g_lock"

\* C2: a streaming generation holds the engine lock for its whole lifetime, so
\* a generate_stream run that is inside mlx_lm.stream_generate and any other
\* generation, streaming or not, are never inside the engine at the same time.
C2_StreamExcludesOthers ==
    \A t, u \in Threads :
        (t # u /\ pc[t] = "s_next") => pc[u] \notin {"s_next", "g_engine"}

\* C3: in GPTOSSAdapter.generate_stream, for any sequence of engine tokens,
\* every token yielded to the client is a content token of a final-channel
\* message (never a token of another channel's message, a role or channel-name
\* header token, a token outside a message, or a token beginning with <|).
C3_OnlyFinalContentYielded ==
    \A i \in 1..Len(yielded) :
        yielded[i] => IsContentOf(stream_tokens, i, "final")

\* C4: for any raw output, truncated and malformed ones included, the final text
\* returned by _parse_harmony_response holds no content of an analysis message:
\* a word of which every occurrence in the output is analysis content is not
\* in the final text.
C4_NoAnalysisInFinal ==
    harmony.called =>
        \A w \in Words :
            (/\ \E i \in 1..Len(call_raw_output) : call_raw_output[i] = w
             /\ \A i \in 1..Len(call_raw_output) :
                    call_raw_output[i] = w => IsContentOf(call_raw_output, i, "analysis"))
            => ~Contains(harmony.final_text, w)

\* C5: no request to the messages endpoint opts in to thinking (the request has
\* no such field), so the response text does not depend on analysis content: it
\* is the text the same request gets when the model output is the same but for
\* the content of its analysis messages.
C5_ResponseIndependentOfAnalysis ==
    response.called =>
        response.text = HandleMessages(EraseAnalysis(generated_text), max_tokens,
                                       response.tokenizer_ok, response.fault).text

\* C6: after parsing any input, the final text of _parse_harmony_response holds
\* no Harmony special token <|...|>, whether it came from a matched final
\* message or from the fallback path.
C6_NoSpecialTokenInFinal ==
    harmony.called =>
        \A i \in 1..Len(harmony.final_text) : ~IsSpecial(harmony.final_text[i])

C8_FinishReasonMapping ==
    response.called =>
        response.finish_reason =
            IF Contains(generated_text, "<|return|>") THEN "stop"
            ELSE IF Contains(generated_text, "<|call|>") THEN "tool_use"
            ELSE IF response.output_tokens >= max_tokens THEN "length"
            ELSE "stop"

\* C11: for the same request and the same engine output, the concatenation of
\* the tokens the streaming path delivers equals the final text the
\* non-streaming path (engine.generate, then GPTOSSAdapter.generate) returns.
C11_StreamEqualsNonStream ==
    YieldedText =
        AdapterGenerate(EngineGenerate(stream_tokens, max_tokens, TRUE, "none")).text

\* C12: when the output ends inside a final-channel message, its only message,
\* with no <|end|>, <|return|> or <|call|> anywhere, the open message is closed
\* implicitly: the final text is the content of that message (trimmed) and
\* nothing else, and the stop reason is length.
C12_TruncatedFinalClosed ==
    LET ps == StateBefore(call_raw_output, Len(call_raw_output) + 1)
    IN  (/\ harmony.called
         /\ ps.st = "IN_MESSAGE"
         /\ Strip(ps.channel) = <<"final">>
         /\ ps.messages = <<>>
         /\ \A i \in 1..Len(call_raw_output) :
               call_raw_output[i] \notin {"<|end|>", "<|return|>", "<|call|>"})
        => /\ harmony.final_text = Strip(ps.content)
           /\ DetectHarmonyStopReason(call_raw_output) = "length"

\* C13: when the output holds several final-channel messages, final is the
\* concatenation of the content of all of them in emission order, trimmed: for
\* the string parser, and for the token parser with and without
\* extract_final_only.
C13_AllFinalMessagesJoined ==
    LET finals == FinalMessagesOf(call_raw_output)
    IN  Len(finals) >= 2 =>
          /\ harmony.called => harmony.final_text = Strip(Join(finals))
          /\ (parsed.called /\ parsed.fault = "none") =>
                parsed.result.final.val = Strip(Join(finals))

\* C14: when the first engine call raises a context-overflow error and the
\* second call succeeds, generate_with_recovery has made exactly these two
\* calls, and the second one used max_tokens reduced by 30%.
C14_OverflowRetriedWithReducedTokens ==
    (/\ Len(call_log) >= 2
     /\ call_log[1].outcome = ErrContextLength
     /\ call_log[2].outcome = Ok)
    => /\ Len(call_log) = 2
       /\ call_log[2].max_tokens = ReduceMaxTokens(call_log[1].max_tokens, 70)

\* C15: a fatal error (model not loaded; invalid input) is never retried: the
\* call that raised it is the last call of execute, no sleep follows it, and
\* execute raises that error.
C15_FatalNeverRetried ==
    \A i \in 1..Len(call_log) :
        call_log[i].outcome \in {ErrModelNotLoaded, ErrInvalidParams}
        => /\ i = Len(call_log)
           /\ rpc \in {"r_except", "r_raised"}
           /\ sleeps <= i - 1
           /\ last_error = call_log[i].outcome

C17_CancelledNotRetried ==
    \A i \in 1..Len(call_log) :
        call_log[i].outcome = ErrCancelled
        => (i = Len(call_log) /\ rpc \in {"r_except", "r_raised"})

\* C18: an error of unknown kind is retried once, and when the retry fails the
\* error is raised: the function is called at most twice.
C18_UnknownRetriedOnce ==
    (Len(call_log) >= 1 /\ call_log[1].outcome = ErrUnknown) => Len(call_log) <= 2

\* C19: after the parameters have been degraded the engine is called once more:
\* when that call fails the error is surfaced with no further call and no second
\* degradation.
C19_OneCallAfterDegradation ==
    /\ degradations <= 1
    /\ Cardinality({i \in 1..Len(call_log) : call_log[i].degradations >= 1}) <= 1

\* C20: every SamplingParams value produced by the constructor, from_dict or
\* copy has 0 <= min_tokens <= max_tokens, max_tokens >= 1, 0 <= temperature
\* <= 2.0 and 0 <= top_p <= 1.0; a copy whose override violates one of these
\* bounds raises ValueError, and a copy call leaves the original unchanged.
C20_SamplingParamsBounds ==
    /\ [](LET InBounds(p) ==
                  /\ 0 <= p.min_tokens /\ p.min_tokens <= p.max_tokens
                  /\ p.max_tokens >= 1
                  /\ 0 <= p.temperature /\ p.temperature <= 20
                  /\ 0 <= p.top_p /\ p.top_p <= 10
              Overridden(p, o) ==
                  [k \in {"min_tokens", "max_tokens", "temperature", "top_p"} |->
                      IF k \in DOMAIN o THEN o[k] ELSE p[k]]
          IN  /\ (params_obj # NotCalled /\ params_obj.result.status = "ok")
                    => InBounds(params_obj.result.value)
              /\ copy_obj # NotCalled =>
                    IF InBounds(Overridden(params_obj.result.value, copy_obj.overrides))
                      THEN copy_obj.result.status = "ok"
                             => InBounds(copy_obj.result.value)
                      ELSE copy_obj.result.status = "ValueError")
    /\ [][params_obj # NotCalled => params_obj' = params_obj]_vars

\* C20 witness: a copy with an override outside the bounds has raised
\* ValueError on a value the constructor produced
C20_CopyRejected ==
    /\ params_obj # NotCalled
    /\ params_obj.result.status = "ok"
    /\ copy_obj # NotCalled
    /\ "max_tokens" \in DOMAIN copy_obj.overrides
    /\ copy_obj.overrides["max_tokens"] < params_obj.result.value.min_tokens
    /\ copy_obj.result.status = "ValueError"

\* C21: every successful OpenAI streaming response is the role chunk, then
\* content chunks only, then exactly one chunk carrying finish_reason, then
\* [DONE]; in particular no content chunk follows a finish_reason chunk.
C21_ChunkOrder ==
    (sse # <<>> /\ sse[Len(sse)] = "done" /\ \A i \in 1..Len(sse) : sse[i] # "error")
      => /\ Len(sse) >= 3
         /\ sse[1] = "role"
         /\ sse[Len(sse) - 1] = "finish"
         /\ \A i \in 2..(Len(sse) - 2) : sse[i] = "content"

C23_NotLoadedRejects ==
    /\ ~engine_set => ~loaded
    /\ adapter_call # NotCalled =>
         /\ ~adapter_call.had_engine =>
              /\ adapter_call.error = "ModelNotLoadedError"
              /\ ~adapter_call.engine_called
         /\ adapter_call.engine_called => adapter_call.was_loaded

\* the k-th block of a prompt: from its k-th <|start|> up to the next one
PromptBlock(p, k) ==
    LET starts == {i \in 1..Len(p) : p[i] = "<|start|>"}
        from == CHOOSE i \in starts : Cardinality({j \in starts : j < i}) = k - 1
        later == {i \in starts : i > from}
        to == IF later = {} THEN Len(p)
              ELSE (CHOOSE i \in later : \A j \in later : i <= j) - 1
    IN  SubSeq(p, from, to)

C25_FinishReasonRendering ==
    response # NotCalled =>
      LET fr == response.finish_reason
          openai == ChatChoiceFinishReason(fr)
          anthropic == response.stop_reason
      IN  /\ openai # "ValidationError"
          /\ fr = "stop" => openai = "stop" /\ anthropic = "end_turn"
          /\ fr = "length" => openai = "length" /\ anthropic = "max_tokens"
          /\ fr = "tool_use" => openai = "tool_use" /\ anthropic = "tool_use"

\* C26: generate_batch returns one result per prompt, each at the index of
\* its prompt whatever the order of completion, a failed prompt as a
\* placeholder with finish_reason error, every prompt having been run, and
\* successful_count + failed_count is the number of prompts.
C26_BatchResultsByIndex ==
    batch_pc = "returned" =>
      /\ Len(results) = prompts
      /\ \A i \in 1..prompts :
           /\ futures[i] = "ok" => results[i] = ResultOf(i)
           /\ futures[i] = "raise" => results[i].finish_reason = "error"
           /\ futures[i] # "pending"
      /\ successful_count + failed_count = prompts
      /\ successful_count = Cardinality({i \in 1..prompts : futures[i] = "ok"})

\* a parallel batch of three has returned, the second prompt failed and the
\* third was collected first
C26_OutOfOrderWithFailure ==
    /\ batch_pc = "returned"
    /\ prompts = 3
    /\ collected = <<3, 2, 1>>
    /\ futures = <<"ok", "raise", "ok">>
    /\ results[1] # NoResult

\* C27: adjust_max_tokens never raises max_tokens, and keeps it at 32 or
\* more when the request asked for 32 or more.
C27_OnlyClampsDown ==
    adjusted # NotCalled =>
      /\ adjusted.max_tokens <= adjusted.requested
      /\ adjusted.requested >= 32 => adjusted.max_tokens >= 32

\* C28: when the model emits an analysis message followed by a final message
\* ending in <|return|>, the result of GPTOSSAdapter.generate has the final
\* content as text, the analysis content as analysis and finish_reason stop
\* (seen here through the response built from it: the thinking block holds
\* the analysis and is followed by the text).
C28_AdapterSeesRawOutput ==
    (/\ response # NotCalled
     /\ generated_text =
          RenderOutput(<<[channel |-> "analysis", content |-> <<"x">>,
                          terminal |-> "<|end|>"],
                         [channel |-> "final", content |-> <<"x">>,
                          terminal |-> "<|return|>"]>>))
      => /\ response.analysis_channel = <<"x">>
         /\ response.text = <<"<thinking>", "\n", "x", "\n", "</thinking>", "\n", "\n", "x">>
         /\ response.finish_reason = "stop"

\* C29: a cancel() entered on a RUNNING or PAUSED stream returns with the
\* state CANCELLED and the pause event set, so that no thread stays blocked
\* in wait_if_paused().
C29_CancelTakesEffect ==
    (cpc = "cancel" /\ ctl_state \in {"running", "paused"})
      ~> (cpc = "idle" /\ ctl_state = "cancelled" /\ pause_event)

\* C30: every generation that has ended, whether its engine call returned
\* or raised, has made one cache clear; a cache clear is made by a thread
\* that does not hold the lock, and the engine runs only for the lock's holder.
C30_ClearAfterRelease ==
    \A t \in Threads :
      /\ (pc[t] = "idle" /\ finish[t] # "none") => clears[t] = 1
      /\ pc[t] \in {"g_clear", "s_clear"} => mlx_lock # t
      /\ pc[t] \in {"g_engine", "s_next"} => mlx_lock = t

\* C31: every metric a generation records is computed from the start time of
\* that same generation: MetricsTracker is only touched under the engine lock,
\* so no other generation's start_generation or end_generation comes between
\* the start and the end of one generation.
C31_MetricsPairStartAndEnd == \A t \in Threads : recorded[t] \in {"none", "own"}

\* C32: the token sequence handed to the model for a request carries, in its
\* system message, the reasoning tier of the request's temperature: low for
\* temperature <= 0.3, high for >= 0.8, medium otherwise.
C32_PromptCarriesReasoningTier ==
    (adapter_call.called /\ adapter_call.engine_called) =>
        LET tokens == adapter_call.prompt_tokens.val
            system_message == SubSeq(tokens, 1, FirstIn(tokens, {"<|end|>"}, 1))
            tier == IF adapter_call.temperature <= 3 THEN "Reasoning: low"
                    ELSE IF adapter_call.temperature >= 8 THEN "Reasoning: high"
                    ELSE "Reasoning: medium"
        IN  Contains(system_message, tier)

\* C33: when the parser recovers no channel-tagged message from an output, it
\* takes the fallback path: final is the output with every special token
\* removed, the empty string when only special tokens remain (stated here for
\* the token parser, parse_response_tokens).
C33_FallbackStripsSpecialTokens ==
    (/\ parsed.called
     /\ parsed.result.raised = "none"
     /\ parsed.fault = "none"
     /\ DOMAIN parsed.result.channels = {}) =>
        parsed.result.final.val =
            SelectSeq([i \in 1..Len(call_token_ids) |-> DecodeToken(call_token_ids[i])],
                      LAMBDA p : ~IsSpecial(p))

\* C34: StreamController makes only legal transitions: a start() call in a
\* state other than IDLE, a pause() call in a state other than RUNNING, a
\* resume() call in a state other than PAUSED and a complete() call in a state
\* other than RUNNING or PAUSED leave the state and the token counter as they
\* were.
C34_OnlyLegalTransitions ==
    ctl_call.called =>
        LET actsIn == CASE ctl_call.method = "start" -> {"idle"}
                        [] ctl_call.method = "pause" -> {"running"}
                        [] ctl_call.method = "resume" -> {"paused"}
                        [] ctl_call.method = "complete" -> {"running", "paused"}
                        [] OTHER -> {"idle", "running", "paused", "cancelled",
                                     "completed", "error"}
        IN  ctl_call.before.state \notin actsIn =>
              /\ ctl_call.after.state = ctl_call.before.state
              /\ ctl_call.after.tokens = ctl_call.before.tokens

\* C34 witness: start() was called on a stream that had ended with tokens
\* counted, and neither the state nor the counter moved
C34_StartIgnoredAfterEnd ==
    /\ ctl_call.called
    /\ ctl_call.method = "start"
    /\ ctl_call.before.state = "completed"
    /\ ctl_call.before.tokens > 0
    /\ ctl_call.after = ctl_call.before

\* C35: the pause event is cleared exactly when the state is PAUSED, in every
\* state start, pause, resume, cancel, complete, error and reset can lead to,
\* so wait_if_paused() blocks only while the stream is paused.
C35_EventClearedIffPaused == (~pause_event) <=> (ctl_state = "paused")

\* C35 witness: error() was called on a paused stream; the stream has left
\* PAUSED and the event is set again
C35_ErrorWhilePaused ==
    /\ ctl_call.called
    /\ ctl_call.method = "error"
    /\ ctl_call.before.state = "paused"
    /\ ~ctl_call.before.event
    /\ ctl_state = "error"
    /\ pause_event

\* C36: truncate_prompt returns the prompt unchanged when it fits into
\* max_length, and otherwise a string of at most max_length characters, for
\* every max_length >= 0 and each of the three strategies.
C36_TruncatedFits ==
    truncated.called =>
        IF Len(truncated.prompt) <= truncated.max_length
          THEN truncated.result = truncated.prompt
          ELSE Len(truncated.result) <= truncated.max_length

\* C37: for valid parameters and an error that can be degraded,
\* create_degraded_params raises nothing and returns valid parameters whose
\* max_tokens is between 1 and the original max_tokens.
C37_DegradedParamsValid ==
    (degraded.called /\ Classify(degraded.error).can_degrade) =>
        /\ degraded.outcome.status = "ok"
        /\ Validate(degraded.outcome.value)
        /\ 1 <= degraded.outcome.value.max_tokens
        /\ degraded.outcome.value.max_tokens <= degraded.original_params.max_tokens

\* C38: every token added to a TokenBuffer with a callback is delivered to
\* the callback at most once and in order: what the callback has received so
\* far, followed by the tokens still pending, is the text get_text() returns.
C38_DeliveredOnceInOrder ==
    token_buffer.called =>
        token_buffer.delivered \o token_buffer.pending_tokens = token_buffer.full_text

\* C39: a cancellation requested while a stream is active is not lost: as
\* long as the stream has not reached the token boundary that applies it, the
\* engine's cancelled flag stays set, whatever other generation starts on the
\* same engine in between.
C39_PendingCancelKept ==
    \A t \in Threads :
      (cancelPending[t] /\ pc[t] \in {"s_next", "s_check", "s_yield"}) => cancelled

\* C40: the cache clear of one generation is never made while another thread
\* is inside the `with _mlx_lock:` block of its own generation.
C40_ClearOutsideCriticalSection ==
    [][\A t \in Threads :
         clears'[t] = clears[t] + 1
            => \A u \in Threads \ {t} : pc[u] \notin InsideWith]_vars

\* C9: a cancel_generation() call made while a stream is active takes effect at
\* the next token boundary: a token the engine emits after the call is not
\* yielded, and the generation ends there with finish reason cancelled.
C9_CancelAtNextBoundary ==
    [][\A t \in Threads :
         (pc[t] = "s_check" /\ tokAfterCancel[t] /\ pc'[t] # "s_check")
            => (pc'[t] = "idle" /\ finish'[t] = "cancelled")]_vars

\* C10: the engine lock is released on every exit path of generate, also when
\* mlx_lm.generate raises: whoever holds the lock is inside the `with` block,
\* and every call waiting for the lock eventually enters the engine.
C10_LockAlwaysReleased ==
    /\ [](\A t \in Threads : mlx_lock = t => pc[t] \in InsideWith)
    /\ \A t \in Threads : (pc[t] = "g_lock") ~> (pc[t] = "g_engine")

\* C10 witness: a call whose engine call raised has ended, and another call is
\* inside the engine after it
C10_EnteredAfterRaise ==
    \E t, u \in Threads :
        /\ t # u
        /\ op[t] = "generate" /\ pc[t] = "idle" /\ finish[t] = "error"
        /\ pc[u] = "g_engine" /\ mlx_lock = u

====
